---- MODULE Spec2Model ----
(***************************************************************************)
(* Model of the career-coach backend: the question-answering pipeline and *)
(* the simple search (search-jobs route), the two scraper handlers         *)
(* (scrape-linkedin and scrape-jobs routes), the statistics collection     *)
(* (job-statistics route) and the bulk writer of lib/elasticsearch; and of  *)
(* its browser client: the landing page with OnboardingWizard, the chat    *)
(* page with ChatInterface, and the localStorage they share.               *)
(*                                                                         *)
(* Text is a sequence of one-character strings, so that trim, toUpperCase  *)
(* and substring are computed, not assumed.                                *)
(***************************************************************************)
EXTENDS Integers, Sequences, FiniteSets, TLC

VARIABLES
    \* ---- question answering: handleJobSearch (search-jobs/route.ts)
    qaPc,             \* position of the handler
    query,            \* sanitizedQuery
    chatHistory,      \* chatHistory of the request
    geminiConfigured, \* GEMINI_API_KEY and GEMINI_API_URL are both set
    esConfigured,     \* ELASTICSEARCH_URL and ELASTICSEARCH_API_KEY are both set
    decideResp,       \* text callGeminiAPI returned to shouldSearchElasticsearch
    searchQuery,      \* searchQuery
    searchResults,    \* let searchResults
    aiResponse,       \* let aiResponse
    qaResponse,       \* the NextResponse returned
    calls,            \* the pipeline functions invoked so far, in order
    llmFetches,       \* fetch calls issued to the LLM service
    esFetches,        \* fetch calls issued to the search service
    composeJobs,      \* searchResults argument of generateFinalResponse
    composeAnswer,    \* text generateFinalResponse returned
    retrieved,        \* what textSearchJobs returned
    faulted,          \* the catch of the orchestration try block ran
    searchFailed,     \* the catch around textSearchJobs ran
    prompt,           \* the contexts generateFinalResponse rendered
    \* ---- scraping: handleLinkedInScraping, handleJobScraping
    kind,             \* which handler runs: "profile" or "jobs"
    scPc,             \* position of the handler
    input,            \* sanitizedUrl / sanitizedKeywords
    apifyConfigured,  \* APIFY_API_TOKEN and the actor id are both set
    syncOutcome,      \* how the synchronous call ended
    attempts,         \* let attempts
    scraped,          \* profileData / jobData
    scResponse,       \* the NextResponse returned
    mappingCalls,     \* calls of initializeElasticsearchIndex
    syncCalls,        \* run-sync-get-dataset-items requests
    asyncSubmits,     \* POST /runs requests
    datasetFetches,   \* GET /runs/{id}/dataset/items requests
    statusFetches,    \* GET /runs/{id} requests
    \* ---- bulk writer: bulkSaveJobsToElasticsearch
    bulkPc,           \* position of the bulk writer
    bulkJobs,         \* jobs argument
    esRequests,       \* requests sent to the search service, in order
    bulkResult,       \* "none", "returned" or "threw"
    \* ---- inputs and service answers the handlers do not keep
    rawInput,         \* keywords / linkedinUrl as received, before sanitizeInput
    limit,            \* const limit of handleGetJobSearch
    lastNet,          \* answer of the service to the last request a handler sent
    bulkNet,          \* answer of the search service to the bulk write of a handler
    \* ---- two invocations of handleJobSearch in one process
    reqs,             \* the locals of each invocation
    \* ---- scraping, continued
    dataset,          \* results of the scraper answer the handler processed
    outstanding,      \* external calls of handleJobSearch that are in flight
    runStatus,        \* status the last GET /runs/{id} of the current pass reported
    invocation,       \* number of the request the ingestion route is serving in this process
    \* ---- browser: ChatInterface (components/ChatInterface.tsx)
    messages,         \* messages of ChatInterface
    inputMessage,     \* inputMessage of ChatInterface
    isLoading,        \* isLoading of ChatInterface
    inFlight,         \* bodies of the question requests that have not settled
    now,              \* what Date.now() returns
    userData,         \* userData the chat page handed to ChatInterface
    hasRunJobAnalysis, \* hasRunJobAnalysis of ChatInterface
    localStorage,     \* localStorage of the origin
    analyses,         \* ids of the loading messages of the analysis requests in flight
    \* ---- browser: pages (app/page.tsx, app/chat/page.tsx) and OnboardingWizard
    page,             \* route the browser shows: "landing" (/) or "chat" (/chat)
    view,             \* what the page renders: "loading", "wizard", "chat"
    currentStep,      \* currentStep of OnboardingWizard
    formData,         \* data of OnboardingWizard
    isScraping,       \* isScraping of OnboardingWizard
    scrapingError,    \* scrapingError of OnboardingWizard
    completed,        \* arguments of the calls of onComplete, in order
    scrapes,          \* bodies of the profile-scrape requests that have not settled
    lastRedirect      \* the router.push that loaded the page, until the page has rendered

qaVars ==
    <<qaPc, query, chatHistory, geminiConfigured, esConfigured, decideResp, searchQuery,
      searchResults, aiResponse, qaResponse, calls, llmFetches, esFetches, composeJobs,
      composeAnswer, retrieved, faulted, searchFailed, prompt>>

scVars ==
    <<kind, scPc, input, apifyConfigured, syncOutcome, attempts, scraped, scResponse,
      mappingCalls, syncCalls, asyncSubmits, datasetFetches, statusFetches>>

bulkVars ==
    <<bulkPc, bulkJobs, esRequests, bulkResult>>

cliVars ==
    <<messages, inputMessage, isLoading, inFlight, now, userData, hasRunJobAnalysis,
      localStorage, analyses>>

appVars ==
    <<page, view, currentStep, formData, isScraping, scrapingError, completed, scrapes,
      lastRedirect>>

auxVars ==
    <<rawInput, limit, lastNet, bulkNet, reqs, dataset, outstanding, runStatus, invocation,
      cliVars, appVars>>

vars ==
    <<qaVars, scVars, bulkVars, auxVars>>

-----------------------------------------------------------------------------
(* Bounds of the model *)

\* longest LLM answer enumerated for the Decide step
MaxRespLen == 4
\* most hits the search service returns in the pipeline specification
MaxHits == 2
\* most hits the search service returns in the simple-search specification
MaxGetHits == 3
\* largest job count of an aggregation snapshot
MaxSnapshot == 2
\* most hits the search service returns to one of two interleaved requests
MaxTwoHits == 2
\* most chat turns of a request in the pipeline specification
MaxQaTurns == 1
\* most jobs handed to generateFinalResponse in the prompt specification
MaxJobs == 10
\* most chat turns handed to generateFinalResponse in the prompt specification
MaxTurns == 8
\* longest description / turn content in the prompt specification
MaxTextLen == 202
\* most items the scraper service returns in one dataset
MaxScraped == 2
\* longest list of a scraped profile
MaxListLen == 16
\* most records handed to the bulk writer in the bulk specification
MaxBulk == 3
\* requests one ingestion route serves in a row
MaxInvocations == 2

-----------------------------------------------------------------------------
(* Text *)

Min(a, b) == IF a < b THEN a ELSE b

Max(a, b) == IF a > b THEN a ELSE b

\* the value of a variable that holds no text / no response yet
None == <<"<none>">>

\* data of OnboardingWizard before anything was entered; linkedinData is absent
NoUserData ==
    [position |-> <<>>, experienceLevel |-> <<"j", "u", "n", "i", "o", "r">>,
     linkedinUrl |-> <<>>, linkedinData |-> None]

\* localStorage of an origin the application has not written to: the item
\* stored under 'shekarchai-user-data' (empty: no item) and the other keys,
\* each of which holds the value 'true'
NoStorage == [user |-> {}, flags |-> {}]

\* the page was not loaded by a router.push
NoRedirect == [from |-> "none", to |-> "none"]

LowerCase ==
    <<"a","b","c","d","e","f","g","h","i","j","k","l","m",
      "n","o","p","q","r","s","t","u","v","w","x","y","z">>

UpperCase ==
    <<"A","B","C","D","E","F","G","H","I","J","K","L","M",
      "N","O","P","Q","R","S","T","U","V","W","X","Y","Z">>

ToUpperChar(c) ==
    IF \E i \in 1..26 : LowerCase[i] = c
    THEN UpperCase[CHOOSE i \in 1..26 : LowerCase[i] = c]
    ELSE c

\* String.prototype.toUpperCase
ToUpperCase(s) == [i \in 1..Len(s) |-> ToUpperChar(s[i])]

IsSpace(c) == c \in {" ", "\t", "\n"}

RECURSIVE TrimStart(_)
TrimStart(s) ==
    IF s # <<>> /\ IsSpace(Head(s)) THEN TrimStart(Tail(s)) ELSE s

RECURSIVE TrimEnd(_)
TrimEnd(s) ==
    IF s # <<>> /\ IsSpace(s[Len(s)]) THEN TrimEnd(SubSeq(s, 1, Len(s) - 1)) ELSE s

ToLowerChar(c) ==
    IF \E i \in 1..26 : UpperCase[i] = c
    THEN LowerCase[CHOOSE i \in 1..26 : UpperCase[i] = c]
    ELSE c

\* String.prototype.toLowerCase
ToLowerCase(s) == [i \in 1..Len(s) |-> ToLowerChar(s[i])]

\* String.prototype.trim
Trim(s) == TrimEnd(TrimStart(s))

\* String.prototype.substring(from, to) for 0 <= from <= to
SubstringNoCap(s, from, to) == SubSeq(s, from + 1, Len(s))

Substring(s, from, to) == SubSeq(s, from + 1, Min(to, Len(s)))

\* Array.prototype.slice(0, n)
SliceFirst(xs, n) == SubSeq(xs, 1, Min(n, Len(xs)))

\* Array.prototype.slice(-n)
SliceLastFromStart(xs, n) == SubSeq(xs, 1, Min(n, Len(xs)))

SliceLast(xs, n) == SubSeq(xs, Max(1, Len(xs) - n + 1), Len(xs))

Ellipsis == <<".", ".", ".">>

\* the fallback text of callGeminiAPI
GeminiApology ==
    <<"I"," ","a","p","o","l","o","g","i","z","e",","," ","b","u","t"," ","I"," ","w","a","s",
    " ","u","n","a","b","l","e"," ","t","o"," ","g","e","n","e","r","a","t","e"," ","a"," ",
    "r","e","s","p","o","n","s","e"," ","a","t"," ","t","h","i","s"," ","t","i","m","e",".">>

\* the answer the orchestration catch substitutes
PipelineApology ==
    <<"I"," ","a","p","o","l","o","g","i","z","e",","," ","b","u","t"," ","I","'","m"," ","h",
    "a","v","i","n","g"," ","t","r","o","u","b","l","e"," ","p","r","o","c","e","s","s","i",
    "n","g"," ","y","o","u","r"," ","r","e","q","u","e","s","t"," ","r","i","g","h","t"," ",
    "n","o","w","."," ","P","l","e","a","s","e"," ","t","r","y"," ","a","g","a","i","n"," ",
    "l","a","t","e","r",".">>

\* all texts over alphabet A of length at most n
RECURSIVE TextsUpTo(_, _)
TextsUpTo(A, n) ==
    IF n = 0 THEN {<<>>}
    ELSE LET shorter == TextsUpTo(A, n - 1)
         IN  shorter \cup {Append(t, c) : t \in {u \in shorter : Len(u) = n - 1}, c \in A}

\* a text of length n whose characters depend on position and seed
Text(n, seed) ==
    [j \in 1..n |-> IF (j + seed) % 3 = 0 THEN "a" ELSE IF (j + seed) % 3 = 1 THEN "b" ELSE "c"]

-----------------------------------------------------------------------------
(* Response envelopes (lib/security) *)

CreateSuccessResponse(data) ==
    [success |-> TRUE, status |-> 200, data |-> data]

CreateErrorResponse(message, status) ==
    [success |-> FALSE, status |-> status, error |-> message]

NoResponse == [success |-> FALSE, status |-> 0, error |-> "none"]

-----------------------------------------------------------------------------
(* Input sanitizer (lib/security) *)

\* the markup-significant characters the sanitizer neutralizes
MarkupChars == {"<", ">"}

RECURSIVE Neutralize(_)
Neutralize(s) ==
    IF s = <<>> THEN <<>>
    ELSE IF Head(s) \in MarkupChars THEN Neutralize(Tail(s))
    ELSE <<Head(s)>> \o Neutralize(Tail(s))

\* sanitizeInput(input): markup neutralized, a blank text emptied
SanitizeInput(s) ==
    LET cleaned == Neutralize(s)
    IN  IF Trim(cleaned) = <<>> THEN <<>> ELSE cleaned

\* no request has been sent yet
NoNet == [kind |-> "none"]

\* limit before handleGetJobSearch has parsed it
NoLimit == [nan |-> TRUE, value |-> 0]

-----------------------------------------------------------------------------
(* LLM adapter: callGeminiAPI *)

\* what the LLM service can answer to one fetch
GeminiNet(texts) ==
    {[kind |-> k, text |-> <<>>] : k \in {"throw", "nonOK", "noCandidate"}}
        \cup {[kind |-> "ok", text |-> t] : t \in texts}

\* callGeminiAPI(prompt): threw, text returned, and whether a request was sent
CallGeminiAPINoFallback(configured, net) ==
    IF ~configured
    THEN [threw |-> TRUE, text |-> None, fetched |-> FALSE]
    ELSE IF net.kind \in {"throw", "nonOK"}
    THEN [threw |-> TRUE, text |-> None, fetched |-> TRUE]
    ELSE [threw |-> FALSE, text |-> net.text, fetched |-> TRUE]

CallGeminiAPI(configured, net) ==
    IF ~configured
    THEN [threw |-> TRUE, text |-> None, fetched |-> FALSE]
    ELSE IF net.kind \in {"throw", "nonOK"}
    THEN [threw |-> TRUE, text |-> None, fetched |-> TRUE]
    ELSE [threw |-> FALSE,
          text  |-> IF net.kind = "ok" /\ net.text # <<>> THEN net.text ELSE GeminiApology,
          fetched |-> TRUE]

\* shouldSearchElasticsearch: response.trim().toUpperCase() === 'YES'
IsYesNoTrim(response) == ToUpperCase(response) = <<"Y", "E", "S">>

IsYes(response) == ToUpperCase(Trim(response)) = <<"Y", "E", "S">>

-----------------------------------------------------------------------------
(* Search adapter of the route: textSearchJobs over elasticsearchRequest *)

\* a list of n jobs; job i has a description of length base + i - 1
JobList(n, base) ==
    [i \in 1..n |-> [id |-> i, title |-> Text(i % 2, i), description |-> Text(base + i - 1, i)]]

\* what the search service can answer to one _search request
SearchNet(hitLists) ==
    {[kind |-> k, hits |-> <<>>] : k \in {"throw", "nonOK", "noHits"}}
        \cup {[kind |-> "ok", hits |-> h] : h \in hitLists}

\* textSearchJobs(query): threw, list returned, and whether a request was sent
TextSearchJobsStrict(configured, net) ==
    IF ~configured
    THEN [threw |-> TRUE, hits |-> <<>>, fetched |-> FALSE]
    ELSE IF net.kind \in {"throw", "nonOK", "noHits"}
    THEN [threw |-> TRUE, hits |-> <<>>, fetched |-> TRUE]
    ELSE [threw |-> FALSE, hits |-> net.hits, fetched |-> TRUE]

TextSearchJobs(configured, net) ==
    IF ~configured
    THEN [threw |-> TRUE, hits |-> <<>>, fetched |-> FALSE]
    ELSE IF net.kind \in {"throw", "nonOK"}
    THEN [threw |-> TRUE, hits |-> <<>>, fetched |-> TRUE]
    ELSE [threw |-> FALSE, hits |-> IF net.kind = "ok" THEN net.hits ELSE <<>>, fetched |-> TRUE]

-----------------------------------------------------------------------------
(* generateFinalResponse: the contexts rendered into the Compose prompt *)

\* a history of n turns; turn i has a content of length base + i - 1
History(n, base) ==
    [i \in 1..n |-> [role    |-> IF i % 2 = 1 THEN "user" ELSE "assistant",
                     content |-> Text(base + i - 1, i),
                     timestamp |-> i]]

MaxSnippets == 8

MaxDescriptionChars == 150

MaxHistoryTurns == 6

MaxTurnChars == 200

\* one numbered job entry of searchContext
JobSnippet(job, index) ==
    [index       |-> index,
     title       |-> IF job.title # <<>> THEN job.title ELSE <<"N", "/", "A">>,
     description |-> Substring(job.description, 0, MaxDescriptionChars) \o Ellipsis]

\* searchContext
SearchContext(results) ==
    IF Len(results) > 0
    THEN [count    |-> Len(results),
          snippets |-> LET shown == SliceFirst(results, MaxSnippets)
                       IN  [i \in 1..Len(shown) |-> JobSnippet(shown[i], i)]]
    ELSE [count |-> 0, snippets |-> <<>>]

\* one line of conversationContext
TurnLine(msg) ==
    [label |-> IF msg.role = "user" THEN "User" ELSE "Assistant",
     text  |-> Substring(msg.content, 0, MaxTurnChars)
                  \o (IF Len(msg.content) > MaxTurnChars THEN Ellipsis ELSE <<>>)]

\* conversationContext
ConversationContext(history) ==
    IF Len(history) > 0
    THEN LET shown == SliceLast(history, MaxHistoryTurns)
         IN  [i \in 1..Len(shown) |-> TurnLine(shown[i])]
    ELSE <<>>

BuildPrompt(results, history) ==
    [searchContext |-> SearchContext(results), conversationContext |-> ConversationContext(history)]

NoPrompt == [searchContext |-> [count |-> 0, snippets |-> <<>>], conversationContext |-> <<"<none>">>]

-----------------------------------------------------------------------------
(* Question answering: handleJobSearch *)

\* characters of the LLM answers enumerated for the Decide step
DecideChars == {"Y", "y", "e", "S", " ", "N"}

DecideTexts == TextsUpTo(DecideChars, MaxRespLen)

\* LLM answers enumerated for the Query-Generate and Compose steps
ShortTexts == {<<>>, <<" ", "d", "s", " ">>, <<"o", "k">>}

\* the question as received, and sanitizedQuery
QaRawQueries == {<<>>, <<" ", "<">>, <<"j", "o", "b", "s">>, <<" ", "j", ">">>}

QaQueries == {SanitizeInput(q) : q \in QaRawQueries}

QaHistories == {History(n, 1) : n \in 0..MaxQaTurns}

SearchHitLists == {JobList(n, 0) : n \in 0..MaxHits}

\* a request arrives at handleJobSearch; no other handler runs
QaInit ==
    /\ qaPc = "start"
    /\ query \in QaQueries
    /\ chatHistory \in QaHistories
    /\ geminiConfigured \in BOOLEAN
    /\ esConfigured \in BOOLEAN
    /\ decideResp = None
    /\ searchQuery = None
    /\ searchResults = <<>>
    /\ aiResponse = <<>>
    /\ qaResponse = NoResponse
    /\ calls = <<>>
    /\ llmFetches = 0
    /\ esFetches = 0
    /\ composeJobs = <<>>
    /\ composeAnswer = None
    /\ retrieved = <<>>
    /\ faulted = FALSE
    /\ searchFailed = FALSE
    /\ prompt = NoPrompt
    /\ kind = "none"
    /\ scPc = "idle"
    /\ input = <<>>
    /\ apifyConfigured = FALSE
    /\ syncOutcome = "none"
    /\ attempts = 0
    /\ scraped = <<>>
    /\ scResponse = NoResponse
    /\ mappingCalls = 0
    /\ syncCalls = 0
    /\ asyncSubmits = 0
    /\ datasetFetches = 0
    /\ statusFetches = 0
    /\ bulkPc = "idle"
    /\ bulkJobs = <<>>
    /\ esRequests = <<>>
    /\ bulkResult = "none"
    /\ rawInput = <<>>
    /\ limit = NoLimit
    /\ lastNet = NoNet
    /\ bulkNet = "none"
    /\ reqs = <<>>
    /\ dataset = <<>>
    /\ invocation = 1
    /\ page = "none"
    /\ view = "none"
    /\ currentStep = 0
    /\ formData = NoUserData
    /\ isScraping = FALSE
    /\ scrapingError = None
    /\ completed = <<>>
    /\ scrapes = <<>>
    /\ lastRedirect = NoRedirect
    /\ messages = <<>>
    /\ inputMessage = <<>>
    /\ isLoading = FALSE
    /\ inFlight = <<>>
    /\ now = 0
    /\ userData = NoUserData
    /\ hasRunJobAnalysis = FALSE
    /\ localStorage = NoStorage
    /\ analyses = <<>>
    /\ runStatus = "none"
    /\ outstanding = {}

\* the success envelope at the end of handleJobSearch
JobSearchEnvelope(results, answer) ==
    CreateSuccessResponse([jobs |-> results, aiResponse |-> answer, totalHits |-> Len(results)])

\* catch of the orchestration try block, followed by the return
QaCatchErrorEnvelope(results) ==
    CreateErrorResponse("Internal server error during job search", 500)

QaCatch(results) ==
    JobSearchEnvelope(results, PipelineApology)

\* fetch inside an adapter: from here on the request is in flight; an adapter
\* without its configuration throws before it sends anything
Issue(out, call, configured) == IF configured THEN out \cup {call} ELSE out

\* await: the handler resumes only when the awaited call has settled
SettleDetached(out, call) == out

Settle(out, call) == out \ {call}

\* sanitizedQuery blank: 400 before any external call
QaValidate ==
    /\ qaPc = "start"
    /\ IF query = <<>> \/ Len(Trim(query)) = 0
       THEN /\ qaResponse' = CreateErrorResponse("Search query is required", 400)
            /\ qaPc' = "done"
            /\ UNCHANGED outstanding
       ELSE /\ qaPc' = "decide"
            /\ outstanding' = Issue(outstanding, "decide", geminiConfigured)
            /\ UNCHANGED qaResponse
    /\ UNCHANGED <<query, chatHistory, geminiConfigured, esConfigured, decideResp, searchQuery,
                   searchResults, aiResponse, calls, llmFetches, esFetches, composeJobs,
                   composeAnswer, retrieved, faulted, searchFailed, prompt>>
    /\ UNCHANGED <<scVars, bulkVars>>
    /\ UNCHANGED <<rawInput, limit, lastNet, bulkNet, reqs, dataset, runStatus, invocation,
                   cliVars, appVars>>

\* Step 1: shouldSearchElasticsearch
QaDecide ==
    /\ qaPc = "decide"
    /\ \E net \in GeminiNet(DecideTexts) :
         LET r == CallGeminiAPI(geminiConfigured, net)
         IN  /\ calls' = Append(calls, "decide")
             /\ llmFetches' = llmFetches + (IF r.fetched THEN 1 ELSE 0)
             /\ lastNet' = IF r.fetched THEN net ELSE NoNet
             /\ IF r.threw
                THEN /\ faulted' = TRUE
                     /\ aiResponse' = PipelineApology
                     /\ qaResponse' = QaCatch(searchResults)
                     /\ qaPc' = "done"
                     /\ outstanding' = Settle(outstanding, "decide")
                     /\ UNCHANGED decideResp
                ELSE /\ decideResp' = r.text
                     /\ qaPc' = IF IsYes(r.text) THEN "querygen" ELSE "compose"
                     /\ outstanding' = Issue(Settle(outstanding, "decide"),
                                             IF IsYes(r.text) THEN "querygen" ELSE "compose",
                                             geminiConfigured)
                     /\ UNCHANGED <<faulted, aiResponse, qaResponse>>
    /\ UNCHANGED <<query, chatHistory, geminiConfigured, esConfigured, searchQuery,
                   searchResults, esFetches, composeJobs, composeAnswer, retrieved,
                   searchFailed, prompt>>
    /\ UNCHANGED <<scVars, bulkVars>>
    /\ UNCHANGED <<rawInput, limit, bulkNet, reqs, dataset, runStatus, invocation, cliVars,
                   appVars>>

\* Step 2: generateSearchQuery
QaQueryGen ==
    /\ qaPc = "querygen"
    /\ \E net \in GeminiNet(ShortTexts) :
         LET r == CallGeminiAPI(geminiConfigured, net)
         IN  /\ calls' = Append(calls, "querygen")
             /\ llmFetches' = llmFetches + (IF r.fetched THEN 1 ELSE 0)
             /\ lastNet' = IF r.fetched THEN net ELSE NoNet
             /\ IF r.threw
                THEN /\ faulted' = TRUE
                     /\ aiResponse' = PipelineApology
                     /\ qaResponse' = QaCatch(searchResults)
                     /\ qaPc' = "done"
                     /\ outstanding' = Settle(outstanding, "querygen")
                     /\ UNCHANGED searchQuery
                ELSE /\ searchQuery' = Trim(r.text)
                     /\ qaPc' = "search"
                     /\ outstanding' = Issue(Settle(outstanding, "querygen"), "search",
                                             esConfigured)
                     /\ UNCHANGED <<faulted, aiResponse, qaResponse>>
    /\ UNCHANGED <<query, chatHistory, geminiConfigured, esConfigured, decideResp,
                   searchResults, esFetches, composeJobs, composeAnswer, retrieved,
                   searchFailed, prompt>>
    /\ UNCHANGED <<scVars, bulkVars>>
    /\ UNCHANGED <<rawInput, limit, bulkNet, reqs, dataset, runStatus, invocation, cliVars,
                   appVars>>

\* catch (searchError): continue without search results
QaSearchCatchRethrow ==
    /\ searchFailed' = TRUE
    /\ faulted' = TRUE
    /\ aiResponse' = PipelineApology
    /\ qaResponse' = QaCatch(searchResults)
    /\ qaPc' = "done"
    /\ UNCHANGED <<searchResults, retrieved>>

QaSearchCatchRetry ==
    /\ searchFailed' = TRUE
    /\ qaPc' = IF searchFailed THEN "compose" ELSE "search"
    /\ UNCHANGED <<searchResults, retrieved, faulted, aiResponse, qaResponse>>

QaSearchCatch ==
    /\ searchFailed' = TRUE
    /\ qaPc' = "compose"
    /\ UNCHANGED <<searchResults, retrieved, faulted, aiResponse, qaResponse>>

\* Step 3: textSearchJobs inside its own try
QaSearch ==
    /\ qaPc = "search"
    /\ \E net \in SearchNet(SearchHitLists) :
         LET r == TextSearchJobs(esConfigured, net)
         IN  /\ calls' = Append(calls, "search")
             /\ esFetches' = esFetches + (IF r.fetched THEN 1 ELSE 0)
             /\ lastNet' = IF r.fetched THEN net ELSE NoNet
             /\ IF r.threw
                THEN QaSearchCatch
                ELSE /\ searchResults' = r.hits
                     /\ retrieved' = r.hits
                     /\ qaPc' = "compose"
                     /\ UNCHANGED <<searchFailed, faulted, aiResponse, qaResponse>>
             /\ outstanding' = IF qaPc' = "compose"
                                THEN Issue(Settle(outstanding, "search"), "compose",
                                           geminiConfigured)
                                ELSE Settle(outstanding, "search")
    /\ UNCHANGED <<query, chatHistory, geminiConfigured, esConfigured, decideResp, searchQuery,
                   llmFetches, composeJobs, composeAnswer, prompt>>
    /\ UNCHANGED <<scVars, bulkVars>>
    /\ UNCHANGED <<rawInput, limit, bulkNet, reqs, dataset, runStatus, invocation, cliVars,
                   appVars>>

\* the job list handed to generateFinalResponse in each branch of if (needsSearch)
ComposeArgument(needsSearch, results) == IF needsSearch THEN results ELSE <<>>

\* Step 4: generateFinalResponse, then the return of the handler
QaCompose ==
    /\ qaPc = "compose"
    /\ \E net \in GeminiNet(ShortTexts) :
         LET r    == CallGeminiAPI(geminiConfigured, net)
             jobs == ComposeArgument(IsYes(decideResp), searchResults)
         IN  /\ calls' = Append(calls, "compose")
             /\ composeJobs' = jobs
             /\ prompt' = BuildPrompt(jobs, chatHistory)
             /\ llmFetches' = llmFetches + (IF r.fetched THEN 1 ELSE 0)
             /\ lastNet' = IF r.fetched THEN net ELSE NoNet
             /\ IF r.threw
                THEN /\ faulted' = TRUE
                     /\ aiResponse' = PipelineApology
                     /\ qaResponse' = QaCatch(searchResults)
                     /\ UNCHANGED composeAnswer
                ELSE /\ composeAnswer' = r.text
                     /\ aiResponse' = r.text
                     /\ qaResponse' = JobSearchEnvelope(searchResults, r.text)
                     /\ UNCHANGED faulted
             /\ qaPc' = "done"
             /\ outstanding' = Settle(outstanding, "compose")
    /\ UNCHANGED <<query, chatHistory, geminiConfigured, esConfigured, decideResp, searchQuery,
                   searchResults, esFetches, retrieved, searchFailed>>
    /\ UNCHANGED <<scVars, bulkVars>>
    /\ UNCHANGED <<rawInput, limit, bulkNet, reqs, dataset, runStatus, invocation, cliVars,
                   appVars>>

-----------------------------------------------------------------------------
(* Bulk writer: bulkSaveJobsToElasticsearch (lib/elasticsearch.ts) *)

INDEX_NAME == "linkedin-jobs-webhook"

\* placeholder vectors Math.random() can produce, one choice per call
VectorSeeds == {0, 7}

\* the document line of one job
BulkDocument(job, i, seed) ==
    [doc    |-> job,
     vector |-> <<seed, (seed + i) % 10, (seed + 2 * i) % 10>>,
     text   |-> Trim(job.title \o <<" ">> \o job.company \o <<" ">> \o job.description)]

\* bulkBody after flat(): the lines of the request body, each ended by a newline
BulkBody(jobs, seed) ==
    [k \in 1..(2 * Len(jobs)) |->
        IF k % 2 = 1
        THEN [index |-> [_index |-> INDEX_NAME]]
        ELSE BulkDocument(jobs[k \div 2], k \div 2, seed)]

\* the requests one call of bulkSaveJobsToElasticsearch sends
BulkRequestsAlways(jobs, seed) ==
    <<[endpoint |-> "/_bulk", method |-> "POST", body |-> BulkBody(jobs, seed)]>>

BulkRequests(jobs, seed) ==
    IF Len(jobs) = 0
    THEN <<>>
    ELSE <<[endpoint |-> "/_bulk", method |-> "POST", body |-> BulkBody(jobs, seed)]>>

\* outcome of the call: it throws when its request throws or is answered non-OK
BulkThrows(jobs, net) == Len(jobs) > 0 /\ net \in {"throw", "nonOK"}

EsNet == {"ok", "nonOK", "throw"}

\* an index document as the handlers build it (ElasticsearchJobData)
EsJob(i, keywords) ==
    [id          |-> <<"j">> \o Text(i, 0),
     title       |-> Text(i % 3, i),
     company     |-> Text((i + 1) % 2, i),
     description |-> Text(i % 2, i + 1),
     keywords    |-> <<ToLowerCase(keywords)>>]

BulkInputs ==
    {[i \in 1..n |-> EsJob(i + shift, kw)] :
        n \in 0..MaxBulk, shift \in 0..3, kw \in {<<"Q", "a">>, <<"d", "e", "v">>, <<"M", "L">>}}

\* bulkSaveJobsToElasticsearch is called; no handler runs
BulkInit ==
    /\ bulkPc = "start"
    /\ bulkJobs \in BulkInputs
    /\ esRequests = <<>>
    /\ bulkResult = "none"
    /\ qaPc = "idle"
    /\ query = <<>>
    /\ chatHistory = <<>>
    /\ geminiConfigured = FALSE
    /\ esConfigured = FALSE
    /\ decideResp = None
    /\ searchQuery = None
    /\ searchResults = <<>>
    /\ aiResponse = <<>>
    /\ qaResponse = NoResponse
    /\ calls = <<>>
    /\ llmFetches = 0
    /\ esFetches = 0
    /\ composeJobs = <<>>
    /\ composeAnswer = None
    /\ retrieved = <<>>
    /\ faulted = FALSE
    /\ searchFailed = FALSE
    /\ prompt = NoPrompt
    /\ kind = "none"
    /\ scPc = "idle"
    /\ input = <<>>
    /\ apifyConfigured = FALSE
    /\ syncOutcome = "none"
    /\ attempts = 0
    /\ scraped = <<>>
    /\ scResponse = NoResponse
    /\ mappingCalls = 0
    /\ syncCalls = 0
    /\ asyncSubmits = 0
    /\ datasetFetches = 0
    /\ statusFetches = 0
    /\ rawInput = <<>>
    /\ limit = NoLimit
    /\ lastNet = NoNet
    /\ bulkNet = "none"
    /\ reqs = <<>>
    /\ dataset = <<>>
    /\ invocation = 1
    /\ page = "none"
    /\ view = "none"
    /\ currentStep = 0
    /\ formData = NoUserData
    /\ isScraping = FALSE
    /\ scrapingError = None
    /\ completed = <<>>
    /\ scrapes = <<>>
    /\ lastRedirect = NoRedirect
    /\ messages = <<>>
    /\ inputMessage = <<>>
    /\ isLoading = FALSE
    /\ inFlight = <<>>
    /\ now = 0
    /\ userData = NoUserData
    /\ hasRunJobAnalysis = FALSE
    /\ localStorage = NoStorage
    /\ analyses = <<>>
    /\ runStatus = "none"
    /\ outstanding = {}

\* one call bulkSaveJobsToElasticsearch(bulkJobs)
BulkSave ==
    /\ bulkPc = "start"
    /\ \E seed \in VectorSeeds, net \in EsNet :
         /\ esRequests' = esRequests \o BulkRequests(bulkJobs, seed)
         /\ bulkResult' = IF BulkThrows(bulkJobs, net) THEN "threw" ELSE "returned"
    /\ bulkPc' = "done"
    /\ UNCHANGED bulkJobs
    /\ UNCHANGED <<qaVars, scVars>>
    /\ UNCHANGED auxVars

-----------------------------------------------------------------------------
(* Scraper handlers: handleLinkedInScraping and handleJobScraping *)

ProfileMaxAttempts == 20

JobsMaxAttempts == 24

\* const maxAttempts of the running handler
MaxAttemptsOf(k) == IF k = "profile" THEN ProfileMaxAttempts ELSE JobsMaxAttempts

\* while (attempts < maxAttempts)
WhileCondInclusive(a, max) == a <= max

WhileCond(a, max) == a < max

\* keywords / linkedinUrl as received
ScRawInputs == {<<>>, <<" ", "<">>, <<"Q", "a">>, <<"<", "Q", "a">>}

\* a raw profile item of the dataset, every list of length n
RawProfile(n) ==
    [fullName               |-> Text(n % 2, n),
     experiences            |-> [i \in 1..n |-> i],
     educations             |-> [i \in 1..n |-> i],
     skills                 |-> [i \in 1..n |-> i],
     licenseAndCertificates |-> [i \in 1..n |-> i],
     volunteerAndAwards     |-> [i \in 1..n |-> i],
     interests              |-> [i \in 1..n |-> i]]

\* processedData of handleLinkedInScraping
ProcessProfileOneCap(raw, url) ==
    [linkedinUrl            |-> url,
     fullName               |-> raw.fullName,
     experiences            |-> SliceFirst(raw.experiences, 5),
     educations             |-> SliceFirst(raw.educations, 5),
     skills                 |-> SliceFirst(raw.skills, 15),
     licenseAndCertificates |-> SliceFirst(raw.licenseAndCertificates, 5),
     volunteerAndAwards     |-> SliceFirst(raw.volunteerAndAwards, 5),
     interests              |-> raw.interests]

ProcessProfile(raw, url) ==
    [linkedinUrl            |-> url,
     fullName               |-> raw.fullName,
     experiences            |-> SliceFirst(raw.experiences, 5),
     educations             |-> SliceFirst(raw.educations, 3),
     skills                 |-> SliceFirst(raw.skills, 15),
     licenseAndCertificates |-> SliceFirst(raw.licenseAndCertificates, 5),
     volunteerAndAwards     |-> SliceFirst(raw.volunteerAndAwards, 3),
     interests              |-> raw.interests]

\* a raw job item of the dataset
RawJob(i) ==
    [id              |-> <<"j">> \o Text(i, 0),
     title           |-> Text(i % 3, i),
     companyName     |-> Text((i + 1) % 2, i),
     location        |-> Text(i % 2, 2),
     descriptionText |-> Text(i % 2, i + 1),
     descriptionHtml |-> Text(1, i)]

DefaultLocation == <<"U", "S">>

\* one element of processedJobs / jobData
ProcessJob(job, location) ==
    [id              |-> job.id,
     title           |-> job.title,
     companyName     |-> job.companyName,
     location        |-> IF job.location # <<>> THEN job.location ELSE location,
     descriptionText |-> job.descriptionText,
     descriptionHtml |-> job.descriptionHtml]

ProcessJobs(results, location) ==
    [i \in 1..Len(results) |-> ProcessJob(results[i], location)]

\* one element of elasticsearchJobs
ToElasticsearchJob(job, keywords) ==
    [id          |-> job.id,
     title       |-> job.title,
     company     |-> job.companyName,
     location    |-> job.location,
     description |-> IF job.descriptionText # <<>> THEN job.descriptionText
                     ELSE job.descriptionHtml,
     keywords    |-> <<ToLowerCase(keywords)>>]

ToElasticsearchJobs(jobs, keywords) ==
    [i \in 1..Len(jobs) |-> ToElasticsearchJob(jobs[i], keywords)]

\* datasets the scraper service can return with at least one item
ProfileDatasets == {<<RawProfile(n)>> : n \in 0..MaxListLen}

JobDatasets == {[i \in 1..n |-> RawJob(i)] : n \in 1..MaxScraped}

DatasetsOf(k) == IF k = "profile" THEN ProfileDatasets ELSE JobDatasets

\* answers of the scraper service to a dataset request (sync or poll)
DatasetNet(k) ==
    {[kind |-> c, items |-> <<>>] : c \in {"throw", "nonOK", "empty"}}
        \cup {[kind |-> "results", items |-> d] : d \in DatasetsOf(k)}

\* answers to POST /runs; "malformed" is an OK answer without data.id
SubmitNet == {"ok", "nonOK", "throw", "malformed"}

\* answers to GET /runs/{id}
StatusNet == {"throw", "nonOK", "malformed", "RUNNING", "SUCCEEDED", "FAILED"}

\* demoJobs of the outer catch of handleJobScraping
DemoJobs ==
    <<[id |-> "demo-1", companyName |-> "Google"],
      [id |-> "demo-2", companyName |-> "Microsoft"],
      [id |-> "demo-3", companyName |-> "Amazon"]>>

DemoResponse == CreateSuccessResponse([data |-> DemoJobs, totalJobs |-> Len(DemoJobs)])

\* a request arrives at one of the two scraper handlers
ScInit ==
    /\ kind \in {"profile", "jobs"}
    /\ scPc = "start"
    /\ rawInput \in ScRawInputs
    /\ input = SanitizeInput(rawInput)
    /\ apifyConfigured \in BOOLEAN
    /\ syncOutcome = "none"
    /\ attempts = 0
    /\ scraped = <<>>
    /\ scResponse = NoResponse
    /\ mappingCalls = 0
    /\ syncCalls = 0
    /\ asyncSubmits = 0
    /\ datasetFetches = 0
    /\ statusFetches = 0
    /\ qaPc = "idle"
    /\ query = <<>>
    /\ chatHistory = <<>>
    /\ geminiConfigured = FALSE
    /\ esConfigured = FALSE
    /\ decideResp = None
    /\ searchQuery = None
    /\ searchResults = <<>>
    /\ aiResponse = <<>>
    /\ qaResponse = NoResponse
    /\ calls = <<>>
    /\ llmFetches = 0
    /\ esFetches = 0
    /\ composeJobs = <<>>
    /\ composeAnswer = None
    /\ retrieved = <<>>
    /\ faulted = FALSE
    /\ searchFailed = FALSE
    /\ prompt = NoPrompt
    /\ bulkPc = "idle"
    /\ bulkJobs = <<>>
    /\ esRequests = <<>>
    /\ bulkResult = "none"
    /\ limit = NoLimit
    /\ lastNet = NoNet
    /\ bulkNet = "none"
    /\ reqs = <<>>
    /\ dataset = <<>>
    /\ invocation = 1
    /\ page = "none"
    /\ view = "none"
    /\ currentStep = 0
    /\ formData = NoUserData
    /\ isScraping = FALSE
    /\ scrapingError = None
    /\ completed = <<>>
    /\ scrapes = <<>>
    /\ lastRedirect = NoRedirect
    /\ messages = <<>>
    /\ inputMessage = <<>>
    /\ isLoading = FALSE
    /\ inFlight = <<>>
    /\ now = 0
    /\ userData = NoUserData
    /\ hasRunJobAnalysis = FALSE
    /\ localStorage = NoStorage
    /\ analyses = <<>>
    /\ runStatus = "none"
    /\ outstanding = {}

\* the response when the poll loop ended without data
TimeoutResponseEmptySuccess(k) ==
    IF k = "profile"
    THEN CreateSuccessResponse([data |-> <<>>])
    ELSE CreateErrorResponse("LinkedIn job scraping timed out or no jobs found", 500)

TimeoutResponse(k) ==
    IF k = "profile"
    THEN CreateErrorResponse("LinkedIn scraping timed out or failed", 500)
    ELSE CreateErrorResponse("LinkedIn job scraping timed out or no jobs found", 500)

\* the response of the outer catch
OuterCatchResponse(k) ==
    IF k = "profile"
    THEN CreateErrorResponse("Internal server error during LinkedIn scraping", 500)
    ELSE DemoResponse

\* the response when APIFY credentials are missing
ConfigErrorResponse == CreateErrorResponse("Service configuration error", 500)

\* input validation, and for the profile handler the credentials check
ScStartUnchecked ==
    /\ scPc = "start"
    /\ IF kind = "profile"
       THEN IF ~apifyConfigured
            THEN /\ scResponse' = ConfigErrorResponse
                 /\ scPc' = "done"
            ELSE /\ scPc' = "sync"
                 /\ UNCHANGED scResponse
       ELSE /\ scPc' = "initIndex"
            /\ UNCHANGED scResponse
    /\ UNCHANGED <<kind, input, apifyConfigured, syncOutcome, attempts, scraped, mappingCalls,
                   syncCalls, asyncSubmits, datasetFetches, statusFetches>>
    /\ UNCHANGED <<qaVars, bulkVars>>
    /\ UNCHANGED auxVars

ScStart ==
    /\ scPc = "start"
    /\ IF kind = "profile"
       THEN IF input = <<>>
            THEN /\ scResponse' = CreateErrorResponse("LinkedIn URL is required", 400)
                 /\ scPc' = "done"
            ELSE IF ~apifyConfigured
            THEN /\ scResponse' = ConfigErrorResponse
                 /\ scPc' = "done"
            ELSE /\ scPc' = "sync"
                 /\ UNCHANGED scResponse
       ELSE IF input = <<>> \/ Len(Trim(input)) = 0
            THEN /\ scResponse' = CreateErrorResponse("Job keywords are required", 400)
                 /\ scPc' = "done"
            ELSE /\ scPc' = "initIndex"
                 /\ UNCHANGED scResponse
    /\ UNCHANGED <<kind, input, apifyConfigured, syncOutcome, attempts, scraped, mappingCalls,
                   syncCalls, asyncSubmits, datasetFetches, statusFetches>>
    /\ UNCHANGED <<qaVars, bulkVars>>
    /\ UNCHANGED auxVars

\* PUT /{index}/_mapping of initializeElasticsearchIndex
MappingRequest ==
    [endpoint |-> "/linkedin-jobs-webhook/_mapping", method |-> "PUT", body |-> <<>>]

\* await initializeElasticsearchIndex(): called by every invocation n that gets
\* past its validation; no module-level flag remembers an earlier call
NeedsMappingOnce(n) == n = 1

NeedsMapping(n) == TRUE

\* handleJobScraping: initializeElasticsearchIndex in its try, then the credentials check
ScInitIndex ==
    /\ scPc = "initIndex"
    /\ \E net \in EsNet :
         IF NeedsMapping(invocation)
         THEN /\ mappingCalls' = mappingCalls + 1
              /\ esRequests' = Append(esRequests, MappingRequest)
         ELSE UNCHANGED <<mappingCalls, esRequests>>
    /\ IF ~apifyConfigured
       THEN /\ scResponse' = ConfigErrorResponse
            /\ scPc' = "done"
       ELSE /\ scPc' = "sync"
            /\ UNCHANGED scResponse
    /\ UNCHANGED <<kind, input, apifyConfigured, syncOutcome, attempts, scraped,
                   syncCalls, asyncSubmits, datasetFetches, statusFetches>>
    /\ UNCHANGED <<bulkPc, bulkJobs, bulkResult>>
    /\ UNCHANGED qaVars
    /\ UNCHANGED auxVars

\* the success response built from the processed dataset
ScrapeSuccess(k, data) ==
    IF k = "profile"
    THEN CreateSuccessResponse([data |-> data])
    ELSE CreateSuccessResponse([data |-> data, totalJobs |-> Len(data)])

\* processing of a non-empty dataset: results[0] for a profile, results.map for jobs
ProcessDataset(k, items, url) ==
    IF k = "profile"
    THEN ProcessProfile(items[1], url)
    ELSE ProcessJobs(items, DefaultLocation)

\* where the handler goes after the synchronous call: with results it returns
\* (after the index write for jobs), otherwise it falls back to POST /runs
AfterSyncThenAsync(k, outcome) ==
    IF outcome = "results" /\ k = "profile" THEN "done" ELSE "submit"

AfterSync(k, outcome) ==
    IF outcome = "results"
    THEN IF k = "profile" THEN "done" ELSE "save"
    ELSE "submit"

\* the synchronous call; an OK answer with results ends the profile handler
ScSync ==
    /\ scPc = "sync"
    /\ syncCalls' = syncCalls + 1
    /\ \E net \in DatasetNet(kind) :
         /\ syncOutcome' = net.kind
         /\ dataset' = IF net.kind = "results" THEN net.items ELSE dataset
         /\ scPc' = AfterSync(kind, net.kind)
         /\ IF net.kind = "results"
            THEN /\ scraped' = ProcessDataset(kind, net.items, input)
                 /\ IF kind = "profile"
                    THEN scResponse' = ScrapeSuccess(kind, scraped')
                    ELSE UNCHANGED scResponse
            ELSE UNCHANGED <<scraped, scResponse>>
    /\ UNCHANGED <<kind, input, apifyConfigured, attempts, mappingCalls,
                   asyncSubmits, datasetFetches, statusFetches>>
    /\ UNCHANGED <<qaVars, bulkVars>>
    /\ UNCHANGED <<rawInput, limit, lastNet, bulkNet, reqs, outstanding, runStatus, invocation,
                   cliVars, appVars>>

\* the fallback: n requests POST /runs, then the first test of the while condition
\* (the non-OK message of handleJobScraping also carries the status code)
ScSubmitWith(n) ==
    /\ scPc = "submit"
    /\ asyncSubmits' = asyncSubmits + n
    /\ \E net \in SubmitNet :
         CASE net \in {"throw", "malformed"} ->
                /\ scResponse' = OuterCatchResponse(kind)
                /\ scPc' = "done"
                /\ UNCHANGED attempts
           [] net = "nonOK" ->
                /\ scResponse' = IF kind = "profile"
                                 THEN CreateErrorResponse("Failed to start LinkedIn scraping", 500)
                                 ELSE CreateErrorResponse("Failed to start LinkedIn job scraping", 500)
                /\ scPc' = "done"
                /\ UNCHANGED attempts
           [] net = "ok" ->
                /\ attempts' = 0
                /\ scPc' = "pollDataset"
                /\ UNCHANGED scResponse
    /\ UNCHANGED <<kind, input, apifyConfigured, syncOutcome, scraped, mappingCalls,
                   syncCalls, datasetFetches, statusFetches>>
    /\ UNCHANGED <<qaVars, bulkVars>>
    /\ UNCHANGED auxVars

ScSubmitTwice == ScSubmitWith(2)

ScSubmit == ScSubmitWith(1)

\* attempts++ followed by the test of the while condition and, when the loop
\* ends without data, the return after it
ScNextAttempt ==
    /\ attempts' = attempts + 1
    /\ IF WhileCond(attempts', MaxAttemptsOf(kind))
       THEN /\ scPc' = "pollDataset"
            /\ UNCHANGED scResponse
       ELSE /\ scResponse' = TimeoutResponse(kind)
            /\ scPc' = "done"

\* one pass of the loop up to the dataset request
ScPollDataset ==
    /\ scPc = "pollDataset"
    /\ datasetFetches' = datasetFetches + 1
    /\ runStatus' = "none"
    /\ \E net \in DatasetNet(kind) :
         CASE net.kind = "throw" ->
                /\ ScNextAttempt
                /\ UNCHANGED <<scraped, dataset>>
           [] net.kind \in {"nonOK", "empty"} ->
                /\ scPc' = "pollStatus"
                /\ UNCHANGED <<attempts, scraped, scResponse, dataset>>
           [] net.kind = "results" ->
                /\ dataset' = net.items
                /\ scraped' = ProcessDataset(kind, net.items, input)
                /\ IF kind = "profile"
                   THEN /\ scResponse' = ScrapeSuccess(kind, scraped')
                        /\ scPc' = "done"
                   ELSE /\ scPc' = "save"
                        /\ UNCHANGED scResponse
                /\ UNCHANGED attempts
    /\ UNCHANGED <<kind, input, apifyConfigured, syncOutcome, mappingCalls,
                   syncCalls, asyncSubmits, statusFetches>>
    /\ UNCHANGED <<qaVars, bulkVars>>
    /\ UNCHANGED <<rawInput, limit, lastNet, bulkNet, reqs, outstanding, invocation, cliVars,
                   appVars>>

\* statusData.data.status === 'FAILED'
RunFailedAnyTerminal(net) == net \in {"FAILED", "SUCCEEDED"}

RunFailed(net) == net = "FAILED"

\* the response when the run reports FAILED
RunFailedResponse(k) ==
    IF k = "profile"
    THEN CreateErrorResponse("LinkedIn scraping failed", 500)
    ELSE CreateErrorResponse("LinkedIn job scraping failed", 500)

\* the run-status request of the same pass
ScPollStatus ==
    /\ scPc = "pollStatus"
    /\ statusFetches' = statusFetches + 1
    /\ \E net \in StatusNet :
         /\ runStatus' = net
         /\ IF RunFailed(net)
            THEN /\ scResponse' = RunFailedResponse(kind)
                 /\ scPc' = "done"
                 /\ UNCHANGED attempts
            ELSE ScNextAttempt
    /\ UNCHANGED <<kind, input, apifyConfigured, syncOutcome, scraped, mappingCalls,
                   syncCalls, asyncSubmits, datasetFetches>>
    /\ UNCHANGED <<qaVars, bulkVars>>
    /\ UNCHANGED <<rawInput, limit, lastNet, bulkNet, reqs, dataset, outstanding, invocation,
                   cliVars, appVars>>

\* handleJobScraping: bulkSaveJobsToElasticsearch in its try, then the success response
ScSave ==
    /\ scPc = "save"
    /\ \E seed \in VectorSeeds, net \in EsNet :
         /\ esRequests' = esRequests \o BulkRequests(ToElasticsearchJobs(scraped, rawInput), seed)
         /\ bulkNet' = net
    /\ scResponse' = ScrapeSuccess(kind, scraped)
    /\ scPc' = "done"
    /\ UNCHANGED <<kind, input, apifyConfigured, syncOutcome, attempts, scraped, mappingCalls,
                   syncCalls, asyncSubmits, datasetFetches, statusFetches>>
    /\ UNCHANGED <<bulkPc, bulkJobs, bulkResult>>
    /\ UNCHANGED qaVars
    /\ UNCHANGED <<rawInput, limit, lastNet, reqs, dataset, outstanding, runStatus, invocation,
                   cliVars, appVars>>

-----------------------------------------------------------------------------
(* Prompt rendering applied to drawn inputs *)

\* generateFinalResponse is called with drawn arguments
ComposeInit ==
    /\ \E n \in 0..MaxJobs, m \in 0..MaxTurns, base \in 0..MaxTextLen :
         /\ searchResults = JobList(n, base)
         /\ chatHistory = History(m, base)
    /\ qaPc = "render"
    /\ query = <<"j", "o", "b", "s">>
    /\ geminiConfigured = TRUE
    /\ esConfigured = TRUE
    /\ decideResp = None
    /\ searchQuery = None
    /\ aiResponse = <<>>
    /\ qaResponse = NoResponse
    /\ calls = <<>>
    /\ llmFetches = 0
    /\ esFetches = 0
    /\ composeJobs = <<>>
    /\ composeAnswer = None
    /\ retrieved = <<>>
    /\ faulted = FALSE
    /\ searchFailed = FALSE
    /\ prompt = NoPrompt
    /\ kind = "none"
    /\ scPc = "idle"
    /\ input = <<>>
    /\ apifyConfigured = FALSE
    /\ syncOutcome = "none"
    /\ attempts = 0
    /\ scraped = <<>>
    /\ scResponse = NoResponse
    /\ mappingCalls = 0
    /\ syncCalls = 0
    /\ asyncSubmits = 0
    /\ datasetFetches = 0
    /\ statusFetches = 0
    /\ bulkPc = "idle"
    /\ bulkJobs = <<>>
    /\ esRequests = <<>>
    /\ bulkResult = "none"
    /\ rawInput = <<>>
    /\ limit = NoLimit
    /\ lastNet = NoNet
    /\ bulkNet = "none"
    /\ reqs = <<>>
    /\ dataset = <<>>
    /\ invocation = 1
    /\ page = "none"
    /\ view = "none"
    /\ currentStep = 0
    /\ formData = NoUserData
    /\ isScraping = FALSE
    /\ scrapingError = None
    /\ completed = <<>>
    /\ scrapes = <<>>
    /\ lastRedirect = NoRedirect
    /\ messages = <<>>
    /\ inputMessage = <<>>
    /\ isLoading = FALSE
    /\ inFlight = <<>>
    /\ now = 0
    /\ userData = NoUserData
    /\ hasRunJobAnalysis = FALSE
    /\ localStorage = NoStorage
    /\ analyses = <<>>
    /\ runStatus = "none"
    /\ outstanding = {}

\* generateFinalResponse up to the prompt
RenderPrompt ==
    /\ qaPc = "render"
    /\ composeJobs' = searchResults
    /\ prompt' = BuildPrompt(searchResults, chatHistory)
    /\ qaPc' = "rendered"
    /\ UNCHANGED <<query, chatHistory, geminiConfigured, esConfigured, decideResp, searchQuery,
                   searchResults, aiResponse, qaResponse, calls, llmFetches, esFetches,
                   composeAnswer, retrieved, faulted, searchFailed>>
    /\ UNCHANGED <<scVars, bulkVars>>
    /\ UNCHANGED auxVars

-----------------------------------------------------------------------------
(* Specifications *)

QaNext ==
    \/ QaValidate
    \/ QaDecide
    \/ QaQueryGen
    \/ QaSearch
    \/ QaCompose

\* one question-answering request
Spec == QaInit /\ [][QaNext]_vars

ScNext ==
    \/ ScStart
    \/ ScInitIndex
    \/ ScSync
    \/ ScSubmit
    \/ ScPollDataset
    \/ ScPollStatus
    \/ ScSave

\* one scrape request, profile or jobs
SpecScrape == ScInit /\ [][ScNext]_vars

\* the same, the handler being scheduled until it returns
SpecScrapeFair == SpecScrape /\ WF_vars(ScNext)

BulkNext == BulkSave

\* one call of the bulk writer
SpecBulk == BulkInit /\ [][BulkNext]_vars

ComposeNext == RenderPrompt

\* one rendering of the Compose prompt
SpecCompose == ComposeInit /\ [][ComposeNext]_vars

-----------------------------------------------------------------------------
(* Simple search: handleGetJobSearch (search-jobs/route.ts) *)

Digits == {"0", "1", "2", "3", "4", "5", "6", "7", "8", "9"}

DigitValue(c) ==
    CASE c = "0" -> 0 [] c = "1" -> 1 [] c = "2" -> 2 [] c = "3" -> 3 [] c = "4" -> 4
      [] c = "5" -> 5 [] c = "6" -> 6 [] c = "7" -> 7 [] c = "8" -> 8 [] c = "9" -> 9

\* the value of the longest prefix of digits of s, after acc
RECURSIVE ParseDigits(_, _)
ParseDigits(s, acc) ==
    IF s = <<>> \/ Head(s) \notin Digits THEN acc
    ELSE ParseDigits(Tail(s), 10 * acc + DigitValue(Head(s)))

\* parseInt(t): leading whitespace, a sign, then digits; NaN without a digit
ParseInt(t) ==
    LET s    == TrimStart(t)
        neg  == s # <<>> /\ Head(s) = "-"
        body == IF s # <<>> /\ Head(s) \in {"-", "+"} THEN Tail(s) ELSE s
    IN  IF body = <<>> \/ Head(body) \notin Digits
        THEN [nan |-> TRUE, value |-> 0]
        ELSE [nan |-> FALSE,
              value |-> IF neg THEN 0 - ParseDigits(body, 0) ELSE ParseDigits(body, 0)]

\* parseInt(searchParams.get('limit') || '20')
LimitOf(param) ==
    ParseInt(IF param = None \/ param = <<>> THEN <<"2", "0">> ELSE param)

\* searchResults.slice(0, limit)
SliceTo(xs, lim) ==
    LET end == IF lim.nan THEN 0
               ELSE IF lim.value < 0 THEN Max(Len(xs) + lim.value, 0)
               ELSE Min(lim.value, Len(xs))
    IN  SubSeq(xs, 1, end)

\* the limit parameter of the request; None when it is absent
GetLimitParams == {None, <<"0">>, <<"1">>, <<"x">>, <<"-", "1">>, <<" ", "2", "x">>}

GetHitLists == {JobList(n, 0) : n \in 0..MaxGetHits}

\* a request arrives at handleGetJobSearch; no other handler runs
GetInit ==
    /\ qaPc = "get"
    /\ query \in QaQueries
    /\ \E param \in GetLimitParams : limit = LimitOf(param)
    /\ esConfigured \in BOOLEAN
    /\ chatHistory = <<>>
    /\ geminiConfigured = FALSE
    /\ decideResp = None
    /\ searchQuery = None
    /\ searchResults = <<>>
    /\ aiResponse = <<>>
    /\ qaResponse = NoResponse
    /\ calls = <<>>
    /\ llmFetches = 0
    /\ esFetches = 0
    /\ composeJobs = <<>>
    /\ composeAnswer = None
    /\ retrieved = <<>>
    /\ faulted = FALSE
    /\ searchFailed = FALSE
    /\ prompt = NoPrompt
    /\ kind = "none"
    /\ scPc = "idle"
    /\ input = <<>>
    /\ apifyConfigured = FALSE
    /\ syncOutcome = "none"
    /\ attempts = 0
    /\ scraped = <<>>
    /\ scResponse = NoResponse
    /\ mappingCalls = 0
    /\ syncCalls = 0
    /\ asyncSubmits = 0
    /\ datasetFetches = 0
    /\ statusFetches = 0
    /\ bulkPc = "idle"
    /\ bulkJobs = <<>>
    /\ esRequests = <<>>
    /\ bulkResult = "none"
    /\ rawInput = <<>>
    /\ lastNet = NoNet
    /\ bulkNet = "none"
    /\ reqs = <<>>
    /\ dataset = <<>>
    /\ invocation = 1
    /\ page = "none"
    /\ view = "none"
    /\ currentStep = 0
    /\ formData = NoUserData
    /\ isScraping = FALSE
    /\ scrapingError = None
    /\ completed = <<>>
    /\ scrapes = <<>>
    /\ lastRedirect = NoRedirect
    /\ messages = <<>>
    /\ inputMessage = <<>>
    /\ isLoading = FALSE
    /\ inFlight = <<>>
    /\ now = 0
    /\ userData = NoUserData
    /\ hasRunJobAnalysis = FALSE
    /\ localStorage = NoStorage
    /\ analyses = <<>>
    /\ runStatus = "none"
    /\ outstanding = {}

\* catch (searchError) of handleGetJobSearch
GetSearchCatchEmptyList ==
    CreateSuccessResponse([jobs |-> <<>>, totalHits |-> 0])

GetSearchCatch ==
    CreateErrorResponse("Search service temporarily unavailable", 500)

\* the success envelope of handleGetJobSearch
GetEnvelope(results, lim) ==
    CreateSuccessResponse([jobs |-> SliceTo(results, lim), totalHits |-> Len(results)])

\* the whole handler: textSearchJobs in its try, then the return
GetSearch ==
    /\ qaPc = "get"
    /\ \E net \in SearchNet(GetHitLists) :
         LET r == TextSearchJobs(esConfigured, net)
         IN  /\ calls' = Append(calls, "search")
             /\ esFetches' = esFetches + (IF r.fetched THEN 1 ELSE 0)
             /\ lastNet' = IF r.fetched THEN net ELSE NoNet
             /\ IF r.threw
                THEN /\ searchFailed' = TRUE
                     /\ qaResponse' = GetSearchCatch
                     /\ UNCHANGED <<searchResults, retrieved>>
                ELSE /\ searchResults' = r.hits
                     /\ retrieved' = r.hits
                     /\ qaResponse' = GetEnvelope(r.hits, limit)
                     /\ UNCHANGED searchFailed
    /\ qaPc' = "getDone"
    /\ UNCHANGED <<query, chatHistory, geminiConfigured, esConfigured, decideResp, searchQuery,
                   aiResponse, llmFetches, composeJobs, composeAnswer, faulted, prompt>>
    /\ UNCHANGED <<scVars, bulkVars>>
    /\ UNCHANGED <<rawInput, limit, bulkNet, reqs, dataset, outstanding, runStatus, invocation,
                   cliVars, appVars>>

GetNext == GetSearch

\* one simple-search request
SpecGet == GetInit /\ [][GetNext]_vars

-----------------------------------------------------------------------------
(* Statistics collection: handleJobStatistics (job-statistics/route.ts) *)

\* response.aggregations of an answer that carries none
NoAggregations == [total_jobs |-> "undefined"]

\* the aggregations the search service can hold when it is asked
Snapshots == {[total_jobs |-> n] : n \in 0..MaxSnapshot}

\* answers of the search service to the aggregation request of getJobStatistics
StatsNet ==
    {[kind |-> k, aggregations |-> NoAggregations] : k \in {"throw", "nonOK", "noAggs"}}
        \cup {[kind |-> "ok", aggregations |-> s] : s \in Snapshots}

\* getJobStatistics(): threw, and response.aggregations
GetJobStatistics(net) ==
    IF net.kind \in {"throw", "nonOK"}
    THEN [threw |-> TRUE, statistics |-> NoAggregations]
    ELSE [threw |-> FALSE, statistics |-> net.aggregations]

\* the request getJobStatistics sends
StatisticsRequest ==
    [endpoint |-> "/linkedin-jobs-webhook/_search", method |-> "POST", body |-> <<>>]

\* the two success responses of handleJobStatistics
StoredResponse(statistics, n) ==
    CreateSuccessResponse(
        [statistics |-> statistics,
         message    |-> <<"Successfully collected and stored job postings in the database.", n>>])

InProgressResponse(statistics) ==
    CreateSuccessResponse(
        [statistics |-> statistics,
         message    |-> <<"Data collection is in progress. Current statistics retrieved.">>])

\* a request arrives at handleJobStatistics; no other handler runs
StInit ==
    /\ kind = "stats"
    /\ scPc = "statsStart"
    /\ rawInput \in ScRawInputs
    /\ input = SanitizeInput(rawInput)
    /\ apifyConfigured \in BOOLEAN
    /\ syncOutcome = "none"
    /\ attempts = 0
    /\ scraped = <<>>
    /\ scResponse = NoResponse
    /\ mappingCalls = 0
    /\ syncCalls = 0
    /\ asyncSubmits = 0
    /\ datasetFetches = 0
    /\ statusFetches = 0
    /\ qaPc = "idle"
    /\ query = <<>>
    /\ chatHistory = <<>>
    /\ geminiConfigured = FALSE
    /\ esConfigured = FALSE
    /\ decideResp = None
    /\ searchQuery = None
    /\ searchResults = <<>>
    /\ aiResponse = <<>>
    /\ qaResponse = NoResponse
    /\ calls = <<>>
    /\ llmFetches = 0
    /\ esFetches = 0
    /\ composeJobs = <<>>
    /\ composeAnswer = None
    /\ retrieved = <<>>
    /\ faulted = FALSE
    /\ searchFailed = FALSE
    /\ prompt = NoPrompt
    /\ bulkPc = "idle"
    /\ bulkJobs = <<>>
    /\ esRequests = <<>>
    /\ bulkResult = "none"
    /\ limit = NoLimit
    /\ lastNet = NoNet
    /\ bulkNet = "none"
    /\ reqs = <<>>
    /\ dataset = <<>>
    /\ invocation = 1
    /\ page = "none"
    /\ view = "none"
    /\ currentStep = 0
    /\ formData = NoUserData
    /\ isScraping = FALSE
    /\ scrapingError = None
    /\ completed = <<>>
    /\ scrapes = <<>>
    /\ lastRedirect = NoRedirect
    /\ messages = <<>>
    /\ inputMessage = <<>>
    /\ isLoading = FALSE
    /\ inFlight = <<>>
    /\ now = 0
    /\ userData = NoUserData
    /\ hasRunJobAnalysis = FALSE
    /\ localStorage = NoStorage
    /\ analyses = <<>>
    /\ runStatus = "none"
    /\ outstanding = {}

\* initializeElasticsearchIndex in its try (a failure ends the request), then
\* the credentials check
StInitIndex ==
    /\ kind = "stats"
    /\ scPc = "statsStart"
    /\ IF NeedsMapping(invocation)
       THEN /\ mappingCalls' = mappingCalls + 1
            /\ esRequests' = Append(esRequests, MappingRequest)
       ELSE UNCHANGED <<mappingCalls, esRequests>>
    /\ \E net \in (IF NeedsMapping(invocation) THEN EsNet ELSE {"ok"}) :
         IF net # "ok"
         THEN /\ scResponse' = CreateErrorResponse("Elasticsearch connection failed", 500)
              /\ scPc' = "done"
         ELSE IF ~apifyConfigured
         THEN /\ scResponse' = ConfigErrorResponse
              /\ scPc' = "done"
         ELSE /\ scPc' = "statsSync"
              /\ UNCHANGED scResponse
    /\ UNCHANGED <<kind, input, apifyConfigured, syncOutcome, attempts, scraped,
                   syncCalls, asyncSubmits, datasetFetches, statusFetches>>
    /\ UNCHANGED <<bulkPc, bulkJobs, bulkResult>>
    /\ UNCHANGED qaVars
    /\ UNCHANGED auxVars

\* the synchronous scrape; there is no asynchronous fallback in this handler
StSync ==
    /\ kind = "stats"
    /\ scPc = "statsSync"
    /\ syncCalls' = syncCalls + 1
    /\ \E net \in DatasetNet("jobs") :
         /\ syncOutcome' = net.kind
         /\ IF net.kind = "results"
            THEN /\ dataset' = net.items
                 /\ scraped' = ProcessJobs(net.items, DefaultLocation)
                 /\ scPc' = "statsSave"
            ELSE /\ scPc' = "statistics"
                 /\ UNCHANGED <<scraped, dataset>>
    /\ UNCHANGED <<kind, input, apifyConfigured, attempts, scResponse, mappingCalls,
                   asyncSubmits, datasetFetches, statusFetches>>
    /\ UNCHANGED <<qaVars, bulkVars>>
    /\ UNCHANGED <<rawInput, limit, lastNet, bulkNet, reqs, outstanding, runStatus, invocation,
                   cliVars, appVars>>

\* catch (scrapingError): the handler goes on to the statistics after the try
StScrapingCatchRethrow ==
    /\ scResponse' =
          CreateErrorResponse("Internal server error during job statistics collection", 500)
    /\ scPc' = "done"

StScrapingCatch ==
    /\ scPc' = "statistics"
    /\ UNCHANGED scResponse

\* bulkSaveJobsToElasticsearch inside the scraping try
StSave ==
    /\ kind = "stats"
    /\ scPc = "statsSave"
    /\ \E seed \in VectorSeeds, net \in EsNet :
         /\ esRequests' = esRequests \o BulkRequests(ToElasticsearchJobs(scraped, rawInput), seed)
         /\ bulkNet' = net
         /\ IF BulkThrows(ToElasticsearchJobs(scraped, rawInput), net)
            THEN StScrapingCatch
            ELSE /\ scPc' = "storedStatistics"
                 /\ UNCHANGED scResponse
    /\ UNCHANGED <<kind, input, apifyConfigured, syncOutcome, attempts, scraped, mappingCalls,
                   syncCalls, asyncSubmits, datasetFetches, statusFetches>>
    /\ UNCHANGED <<bulkPc, bulkJobs, bulkResult>>
    /\ UNCHANGED qaVars
    /\ UNCHANGED <<rawInput, limit, lastNet, reqs, dataset, outstanding, runStatus, invocation,
                   cliVars, appVars>>

\* getJobStatistics inside the scraping try, after the write, then the return
StStoredStatistics ==
    /\ kind = "stats"
    /\ scPc = "storedStatistics"
    /\ esRequests' = Append(esRequests, StatisticsRequest)
    /\ \E net \in StatsNet :
         LET r == GetJobStatistics(net)
         IN  /\ lastNet' = net
             /\ IF r.threw
                THEN StScrapingCatch
                ELSE /\ scResponse' = StoredResponse(r.statistics, Len(scraped))
                     /\ scPc' = "done"
    /\ UNCHANGED <<kind, input, apifyConfigured, syncOutcome, attempts, scraped, mappingCalls,
                   syncCalls, asyncSubmits, datasetFetches, statusFetches>>
    /\ UNCHANGED <<bulkPc, bulkJobs, bulkResult>>
    /\ UNCHANGED qaVars
    /\ UNCHANGED <<rawInput, limit, bulkNet, reqs, dataset, outstanding, runStatus, invocation,
                   cliVars, appVars>>

\* getJobStatistics after the scraping try, then the return; a throw reaches
\* the outer catch
StStatistics ==
    /\ kind = "stats"
    /\ scPc = "statistics"
    /\ esRequests' = Append(esRequests, StatisticsRequest)
    /\ \E net \in StatsNet :
         LET r == GetJobStatistics(net)
         IN  /\ lastNet' = net
             /\ scResponse' =
                   IF r.threw
                   THEN CreateErrorResponse(
                            "Internal server error during job statistics collection", 500)
                   ELSE InProgressResponse(r.statistics)
    /\ scPc' = "done"
    /\ UNCHANGED <<kind, input, apifyConfigured, syncOutcome, attempts, scraped, mappingCalls,
                   syncCalls, asyncSubmits, datasetFetches, statusFetches>>
    /\ UNCHANGED <<bulkPc, bulkJobs, bulkResult>>
    /\ UNCHANGED qaVars
    /\ UNCHANGED <<rawInput, limit, bulkNet, reqs, dataset, outstanding, runStatus, invocation,
                   cliVars, appVars>>

StNext ==
    \/ StInitIndex
    \/ StSync
    \/ StSave
    \/ StStoredStatistics
    \/ StStatistics

\* one request to the search-jobs (POST), scrape-linkedin or scrape-jobs route
SpecValidate == (QaInit \/ ScInit) /\ [][QaNext \/ ScNext]_vars

\* one statistics-collection request
SpecStats == StInit /\ [][StNext]_vars

\* one request to the scrape-jobs, scrape-linkedin or job-statistics route
SpecIngest == (ScInit \/ StInit) /\ [][ScNext \/ StNext]_vars

\* the ingestion route has responded and the same process serves its next
\* request: every local of the handler is fresh, the environment is the same
NextInvocation ==
    /\ kind \in {"jobs", "stats"}
    /\ scPc = "done"
    /\ invocation < MaxInvocations
    /\ invocation' = invocation + 1
    /\ kind' \in {"jobs", "stats"}
    /\ scPc' = IF kind' = "jobs" THEN "start" ELSE "statsStart"
    /\ rawInput' \in ScRawInputs
    /\ input' = SanitizeInput(rawInput')
    /\ syncOutcome' = "none"
    /\ attempts' = 0
    /\ scraped' = <<>>
    /\ scResponse' = NoResponse
    /\ mappingCalls' = 0
    /\ syncCalls' = 0
    /\ asyncSubmits' = 0
    /\ datasetFetches' = 0
    /\ statusFetches' = 0
    /\ esRequests' = <<>>
    /\ lastNet' = NoNet
    /\ bulkNet' = "none"
    /\ dataset' = <<>>
    /\ runStatus' = "none"
    /\ UNCHANGED <<apifyConfigured, bulkPc, bulkJobs, bulkResult, limit, reqs, outstanding,
                   cliVars, appVars>>
    /\ UNCHANGED qaVars

\* requests to the scrape-jobs and job-statistics routes served one after another
SpecReingest == (ScInit \/ StInit) /\ [][ScNext \/ StNext \/ NextInvocation]_vars

-----------------------------------------------------------------------------
(* Two invocations of handleJobSearch in one process *)

Requests == {1, 2}

\* the locals of an invocation that has just been entered with sanitizedQuery q;
\* nets is the list of service answers the invocation has received
InitialLocal(q) ==
    [pc            |-> "start",
     query         |-> q,
     decideResp    |-> None,
     searchQuery   |-> None,
     searchResults |-> <<>>,
     aiResponse    |-> <<>>,
     response      |-> NoResponse,
     nets          |-> <<>>]

\* answers of the services in this specification
TwoDecideNet ==
    {[kind |-> "nonOK", text |-> <<>>],
     [kind |-> "ok", text |-> <<"Y", "E", "S">>],
     [kind |-> "ok", text |-> <<"N", "o">>]}

TwoTextNet ==
    {[kind |-> "nonOK", text |-> <<>>],
     [kind |-> "ok", text |-> <<"o", "k">>]}

TwoSearchNet ==
    {[kind |-> "nonOK", hits |-> <<>>], [kind |-> "noHits", hits |-> <<>>]}
        \cup {[kind |-> "ok", hits |-> JobList(n, 0)] : n \in 1..MaxTwoHits}

\* the answer an invocation received, if it sent a request
Received(l, fetched, net) ==
    Append(l.nets, IF fetched THEN net ELSE NoNet)

\* catch of the orchestration try block and the return, on the locals
LocalCatch(l, nets) ==
    [l EXCEPT !.aiResponse = PipelineApology,
              !.response = QaCatch(l.searchResults),
              !.pc = "done",
              !.nets = nets]

\* searchResults = await textSearchJobs(searchQuery): the variable is a local of
\* the invocation
StoreResultsShared(rs, r, hits) ==
    [i \in DOMAIN rs |-> [rs[i] EXCEPT !.searchResults = hits]]

StoreResults(rs, r, hits) ==
    [rs EXCEPT ![r].searchResults = hits]

\* both invocations have been entered; no other handler runs
TwoInit ==
    /\ reqs \in [Requests -> {InitialLocal(q) : q \in QaQueries}]
    /\ geminiConfigured \in BOOLEAN
    /\ esConfigured \in BOOLEAN
    /\ qaPc = "idle"
    /\ query = <<>>
    /\ chatHistory = <<>>
    /\ decideResp = None
    /\ searchQuery = None
    /\ searchResults = <<>>
    /\ aiResponse = <<>>
    /\ qaResponse = NoResponse
    /\ calls = <<>>
    /\ llmFetches = 0
    /\ esFetches = 0
    /\ composeJobs = <<>>
    /\ composeAnswer = None
    /\ retrieved = <<>>
    /\ faulted = FALSE
    /\ searchFailed = FALSE
    /\ prompt = NoPrompt
    /\ kind = "none"
    /\ scPc = "idle"
    /\ input = <<>>
    /\ apifyConfigured = FALSE
    /\ syncOutcome = "none"
    /\ attempts = 0
    /\ scraped = <<>>
    /\ scResponse = NoResponse
    /\ mappingCalls = 0
    /\ syncCalls = 0
    /\ asyncSubmits = 0
    /\ datasetFetches = 0
    /\ statusFetches = 0
    /\ bulkPc = "idle"
    /\ bulkJobs = <<>>
    /\ esRequests = <<>>
    /\ bulkResult = "none"
    /\ rawInput = <<>>
    /\ limit = NoLimit
    /\ lastNet = NoNet
    /\ bulkNet = "none"
    /\ dataset = <<>>
    /\ invocation = 1
    /\ page = "none"
    /\ view = "none"
    /\ currentStep = 0
    /\ formData = NoUserData
    /\ isScraping = FALSE
    /\ scrapingError = None
    /\ completed = <<>>
    /\ scrapes = <<>>
    /\ lastRedirect = NoRedirect
    /\ messages = <<>>
    /\ inputMessage = <<>>
    /\ isLoading = FALSE
    /\ inFlight = <<>>
    /\ now = 0
    /\ userData = NoUserData
    /\ hasRunJobAnalysis = FALSE
    /\ localStorage = NoStorage
    /\ analyses = <<>>
    /\ runStatus = "none"
    /\ outstanding = {}

\* what no step of an invocation changes
TwoUnchanged ==
    /\ UNCHANGED <<qaVars, scVars, bulkVars>>
    /\ UNCHANGED <<rawInput, limit, lastNet, bulkNet, dataset, outstanding, runStatus,
                   invocation, cliVars, appVars>>

\* invocation r: validation of sanitizedQuery
TwoValidate(r) ==
    /\ reqs[r].pc = "start"
    /\ reqs' = [reqs EXCEPT ![r] =
          IF @.query = <<>> \/ Len(Trim(@.query)) = 0
          THEN [@ EXCEPT !.response = CreateErrorResponse("Search query is required", 400),
                         !.pc = "done"]
          ELSE [@ EXCEPT !.pc = "decide"]]
    /\ TwoUnchanged

\* invocation r: shouldSearchElasticsearch up to the resolution of its await
TwoDecide(r) ==
    /\ reqs[r].pc = "decide"
    /\ \E net \in TwoDecideNet :
         LET l    == reqs[r]
             a    == CallGeminiAPI(geminiConfigured, net)
             nets == Received(l, a.fetched, net)
         IN  reqs' = [reqs EXCEPT ![r] =
                 IF a.threw
                 THEN LocalCatch(l, nets)
                 ELSE [l EXCEPT !.decideResp = a.text,
                                !.pc = IF IsYes(a.text) THEN "querygen" ELSE "compose",
                                !.nets = nets]]
    /\ TwoUnchanged

\* invocation r: generateSearchQuery
TwoQueryGen(r) ==
    /\ reqs[r].pc = "querygen"
    /\ \E net \in TwoTextNet :
         LET l    == reqs[r]
             a    == CallGeminiAPI(geminiConfigured, net)
             nets == Received(l, a.fetched, net)
         IN  reqs' = [reqs EXCEPT ![r] =
                 IF a.threw
                 THEN LocalCatch(l, nets)
                 ELSE [l EXCEPT !.searchQuery = Trim(a.text),
                                !.pc = "search",
                                !.nets = nets]]
    /\ TwoUnchanged

\* invocation r: textSearchJobs inside its own try
TwoSearch(r) ==
    /\ reqs[r].pc = "search"
    /\ \E net \in TwoSearchNet :
         LET l    == reqs[r]
             a    == TextSearchJobs(esConfigured, net)
             nets == Received(l, a.fetched, net)
             next == [reqs EXCEPT ![r] = [l EXCEPT !.pc = "compose", !.nets = nets]]
         IN  reqs' = IF a.threw THEN next ELSE StoreResults(next, r, a.hits)
    /\ TwoUnchanged

\* invocation r: generateFinalResponse, then the return of the handler
TwoCompose(r) ==
    /\ reqs[r].pc = "compose"
    /\ \E net \in TwoTextNet :
         LET l    == reqs[r]
             a    == CallGeminiAPI(geminiConfigured, net)
             nets == Received(l, a.fetched, net)
         IN  reqs' = [reqs EXCEPT ![r] =
                 IF a.threw
                 THEN LocalCatch(l, nets)
                 ELSE [l EXCEPT !.aiResponse = a.text,
                                !.response = JobSearchEnvelope(l.searchResults, a.text),
                                !.pc = "done",
                                !.nets = nets]]
    /\ TwoUnchanged

TwoNext ==
    \E r \in Requests :
       \/ TwoValidate(r)
       \/ TwoDecide(r)
       \/ TwoQueryGen(r)
       \/ TwoSearch(r)
       \/ TwoCompose(r)

\* two question-answering requests interleaved at their awaits
SpecTwo == TwoInit /\ [][TwoNext]_vars

-----------------------------------------------------------------------------
(* Browser: ChatInterface (components/ChatInterface.tsx) *)

\* rounds (question and answer) of the longest session the model starts from
MaxRounds == 6

\* messages the model lets the user add to the session it starts from
Horizon == 4

\* id of the initial greeting
GreetingId == 1

\* .slice(-10) of handleSendMessage
HistoryWindow == 10

\* the experience levels of the wizard
Junior == <<"j", "u", "n", "i", "o", "r">>

Senior == <<"s", "e", "n", "i", "o", "r">>

\* result.data of a successful profile scrape, as the wizard keeps it
ScrapedProfile == <<"#profile">>

\* JSON.stringify(data): a property that is undefined is left out
Stringify(d) ==
    IF d.linkedinData = None
    THEN [position |-> d.position, experienceLevel |-> d.experienceLevel,
          linkedinUrl |-> d.linkedinUrl]
    ELSE d

\* JSON.parse(savedUserData), read through the UserData interface
Parse(v) ==
    IF "linkedinData" \in DOMAIN v
    THEN v
    ELSE [position |-> v.position, experienceLevel |-> v.experienceLevel,
          linkedinUrl |-> v.linkedinUrl, linkedinData |-> None]

\* `job-analysis-${userData.position}-${userData.experienceLevel}`
AnalysisPrefix == <<"j", "o", "b", "-", "a", "n", "a", "l", "y", "s", "i", "s", "-">>

AnalysisKey(d) == AnalysisPrefix \o d.position \o <<"-">> \o d.experienceLevel

\* the sessions the model opens the chat page with
ChatUserDatas ==
    {[position |-> <<"q", "a">>, experienceLevel |-> Junior,
      linkedinUrl |-> <<"l", "i">>, linkedinData |-> None],
     [position |-> <<"d", "e", "v">>, experienceLevel |-> Senior,
      linkedinUrl |-> <<"l", "i">>, linkedinData |-> ScrapedProfile]}

\* analysis flags an earlier session may have left in localStorage
ChatFlags == SUBSET {AnalysisKey(d) : d \in ChatUserDatas}

\* a Message; Date.now() and new Date() read the same clock
Msg(id, content, isUser, timestamp) ==
    [id |-> id, content |-> content, isUser |-> isUser, timestamp |-> timestamp]

\* the initial greeting (getInitialMessage), created at instant t
Greeting(t) == Msg(GreetingId, <<"#greeting">>, FALSE, t)

\* the instant at which the model starts: late enough for MaxRounds earlier
\* rounds, one instant per message, after the greeting
SessionInstant == GreetingId + 1 + 2 * MaxRounds

\* last instant at which the model lets the user start something
MaxInstant == SessionInstant + Horizon

\* a session of r answered questions that has reached SessionInstant: the
\* greeting, then question and answer in turn, as handleSendMessage appends them
Session(r) ==
    LET s == SessionInstant - 2 * r
    IN  <<Greeting(s)>> \o
        [i \in 1..(2 * r) |->
            IF i % 2 = 1
            THEN Msg(s + i - 1, <<"h", "i">>, TRUE, s + i - 1)
            ELSE Msg(s + i, <<"#answer">>, FALSE, s + i - 1)]

\* rounds of the sessions the model starts from: a new one, and sessions with
\* fewer, exactly and more than HistoryWindow messages after the greeting
PriorRounds == {0, MaxRounds - 2, MaxRounds - 1, MaxRounds}

\* what the user can have typed into the input
ChatInputs == {<<>>, <<" ">>, <<"h", "i">>}

\* if (!inputMessage.trim() || isLoading) return
AcceptsWhileLoading(text, loading) == Trim(text) # <<>>

Accepts(text, loading) == Trim(text) # <<>> /\ ~loading

\* role of a message in the chat history
RoleOf(msg) == IF msg.isUser THEN "user" ELSE "assistant"

\* the chatHistory of the request body
BuildChatHistoryUnfiltered(msgs) ==
    LET recent == SliceLast(msgs, HistoryWindow)
    IN  [i \in 1..Len(recent) |->
            [role |-> RoleOf(recent[i]), content |-> recent[i].content,
             timestamp |-> recent[i].timestamp]]

BuildChatHistory(msgs) ==
    LET kept   == SelectSeq(msgs, LAMBDA m : m.id # GreetingId)
        recent == SliceLast(kept, HistoryWindow)
    IN  [i \in 1..Len(recent) |->
            [role |-> RoleOf(recent[i]), content |-> recent[i].content,
             timestamp |-> recent[i].timestamp]]

\* the chat page has mounted ChatInterface with the stored user data, the mount
\* effects have run, and the session is new or has answered some questions;
\* no request handler of the server is modelled
ChatInit ==
    /\ kind = "none"
    /\ scPc = "idle"
    /\ rawInput = <<>>
    /\ input = <<>>
    /\ apifyConfigured = FALSE
    /\ syncOutcome = "none"
    /\ attempts = 0
    /\ scraped = <<>>
    /\ scResponse = NoResponse
    /\ mappingCalls = 0
    /\ syncCalls = 0
    /\ asyncSubmits = 0
    /\ datasetFetches = 0
    /\ statusFetches = 0
    /\ qaPc = "idle"
    /\ query = <<>>
    /\ chatHistory = <<>>
    /\ geminiConfigured = FALSE
    /\ esConfigured = FALSE
    /\ decideResp = None
    /\ searchQuery = None
    /\ searchResults = <<>>
    /\ aiResponse = <<>>
    /\ qaResponse = NoResponse
    /\ calls = <<>>
    /\ llmFetches = 0
    /\ esFetches = 0
    /\ composeJobs = <<>>
    /\ composeAnswer = None
    /\ retrieved = <<>>
    /\ faulted = FALSE
    /\ searchFailed = FALSE
    /\ prompt = NoPrompt
    /\ bulkPc = "idle"
    /\ bulkJobs = <<>>
    /\ esRequests = <<>>
    /\ bulkResult = "none"
    /\ limit = NoLimit
    /\ lastNet = NoNet
    /\ bulkNet = "none"
    /\ reqs = <<>>
    /\ dataset = <<>>
    /\ invocation = 1
    /\ page = "chat"
    /\ view = "chat"
    /\ currentStep = 0
    /\ formData = NoUserData
    /\ isScraping = FALSE
    /\ scrapingError = None
    /\ completed = <<>>
    /\ scrapes = <<>>
    /\ lastRedirect = NoRedirect
    /\ userData \in ChatUserDatas
    /\ localStorage \in {[user |-> {Stringify(userData)}, flags |-> f] : f \in ChatFlags}
    /\ hasRunJobAnalysis = (AnalysisKey(userData) \in localStorage.flags)
    /\ now = SessionInstant
    /\ messages \in {Session(r) : r \in PriorRounds}
    /\ inputMessage = <<>>
    /\ isLoading = FALSE
    /\ inFlight = <<>>
    /\ analyses = <<>>
    /\ runStatus = "none"
    /\ outstanding = {}

\* what the steps of ChatInterface leave alone
ChatUnchanged ==
    /\ UNCHANGED <<qaVars, scVars, bulkVars>>
    /\ UNCHANGED appVars
    /\ UNCHANGED <<rawInput, limit, lastNet, bulkNet, reqs, dataset, outstanding, runStatus,
                   invocation>>

\* onChange of the input
ChatType ==
    /\ view = "chat"
    /\ \E text \in ChatInputs : inputMessage' = text
    /\ UNCHANGED <<messages, isLoading, inFlight, now, userData, hasRunJobAnalysis,
                   localStorage, analyses>>
    /\ ChatUnchanged

\* handleSendMessage up to its await fetch
ChatSend ==
    /\ view = "chat"
    /\ Accepts(inputMessage, isLoading)
    /\ now < MaxInstant
    /\ messages' = Append(messages, Msg(now, inputMessage, TRUE, now))
    /\ inputMessage' = <<>>
    /\ isLoading' = TRUE
    /\ inFlight' = Append(inFlight, [query |-> inputMessage,
                                     userProfile |-> userData,
                                     chatHistory |-> BuildChatHistory(messages)])
    /\ now' = now + 1
    /\ UNCHANGED <<userData, hasRunJobAnalysis, localStorage, analyses>>
    /\ ChatUnchanged

\* what the question request can end in: a success envelope with or without
\* aiResponse, an error envelope, or a throw of fetch or of response.json()
ChatOutcomes == {"answer", "noAnswer", "error", "throw"}

\* content of the assistant message for each outcome
ReplyContent(outcome) ==
    CASE outcome = "answer"   -> <<"#answer">>
      [] outcome = "noAnswer" -> <<"#fallback">>
      [] outcome = "error"    -> <<"#errorApology">>
      [] outcome = "throw"    -> <<"#connectionApology">>

\* the messages after the try / catch of handleSendMessage
AfterReplyNone(msgs, outcome, t) ==
    IF outcome = "throw"
    THEN msgs
    ELSE Append(msgs, Msg(t + 1, ReplyContent(outcome), FALSE, t))

AfterReply(msgs, outcome, t) ==
    Append(msgs, Msg(t + 1, ReplyContent(outcome), FALSE, t))

\* setIsLoading(false) in the finally
AfterFinallyStuck(loading) == loading

AfterFinally(loading) == FALSE

\* handleSendMessage from the resolution of its awaits to its end
ChatSettle ==
    /\ view = "chat"
    /\ \E i \in 1..Len(inFlight), outcome \in ChatOutcomes :
         /\ messages' = AfterReply(messages, outcome, now)
         /\ inFlight' = SubSeq(inFlight, 1, i - 1) \o SubSeq(inFlight, i + 1, Len(inFlight))
    /\ isLoading' = AfterFinally(isLoading)
    /\ now' = now + 1
    /\ UNCHANGED <<inputMessage, userData, hasRunJobAnalysis, localStorage, analyses>>
    /\ ChatUnchanged

\* startNewChat
ChatNew ==
    /\ view = "chat"
    /\ messages' = <<Greeting(now)>>
    /\ UNCHANGED <<inputMessage, isLoading, inFlight, now, userData, hasRunJobAnalysis,
                   localStorage, analyses>>
    /\ ChatUnchanged

\* the Profile Insights button, rendered when userData.linkedinData is set
ChatInsights ==
    /\ view = "chat"
    /\ userData.linkedinData # None
    /\ now < MaxInstant
    /\ messages' = Append(messages, Msg(now, <<"#insights">>, FALSE, now))
    /\ now' = now + 1
    /\ UNCHANGED <<inputMessage, isLoading, inFlight, userData, hasRunJobAnalysis,
                   localStorage, analyses>>
    /\ ChatUnchanged

ChatNext ==
    \/ ChatType
    \/ ChatSend
    \/ ChatSettle
    \/ ChatNew
    \/ ChatInsights

\* one session of the chat
SpecChat == ChatInit /\ [][ChatNext]_vars

\* the question request settles: the server answers or the connection fails
SpecChatFair == SpecChat /\ WF_vars(ChatSettle)

-----------------------------------------------------------------------------
(* Browser: the two pages, OnboardingWizard, Reset Profile, job analysis *)

\* onboardings the model lets the user submit
MaxOnboardings == 2

\* steps.length of OnboardingWizard
StepCount == 3

Middle == <<"m", "i", "d", "d", "l", "e">>

\* ids of experienceLevels
ExperienceLevels == {Junior, Middle, Senior}

\* what the user can type as position and as LinkedIn URL
PositionInputs == {<<>>, <<" ">>, <<"q", "a">>}

UrlInputs == {<<>>, <<" ">>, <<"l", "i">>}

\* what an earlier visit can have left in localStorage
AppStorages ==
    {NoStorage} \cup
    UNION {{[user |-> {Stringify(d)}, flags |-> f] : f \in {{}, {AnalysisKey(d)}}} :
           d \in ChatUserDatas}

\* if (savedUserData) of Home: router.push('/chat')
HomeRedirects(storage) == storage.user # {}

\* if (savedUserData) of ChatPage: setUserData, and ChatInterface is rendered
ChatRendersNever(storage) == FALSE

ChatRenders(storage) == storage.user # {}

\* key.startsWith(prefix)
StartsWith(key, prefix) ==
    /\ Len(key) >= Len(prefix)
    /\ SubSeq(key, 1, Len(prefix)) = prefix

\* isStepValid()
IsStepValid(step, d) ==
    CASE step = 0 -> Len(Trim(d.position)) > 0
      [] step = 1 -> d.experienceLevel # <<>>
      [] step = 2 -> Len(Trim(d.linkedinUrl)) > 0
      [] OTHER    -> FALSE

\* the browser has been pointed at / or at /chat; nothing has rendered yet
AppInit ==
    /\ kind = "none"
    /\ scPc = "idle"
    /\ rawInput = <<>>
    /\ input = <<>>
    /\ apifyConfigured = FALSE
    /\ syncOutcome = "none"
    /\ attempts = 0
    /\ scraped = <<>>
    /\ scResponse = NoResponse
    /\ mappingCalls = 0
    /\ syncCalls = 0
    /\ asyncSubmits = 0
    /\ datasetFetches = 0
    /\ statusFetches = 0
    /\ qaPc = "idle"
    /\ query = <<>>
    /\ chatHistory = <<>>
    /\ geminiConfigured = FALSE
    /\ esConfigured = FALSE
    /\ decideResp = None
    /\ searchQuery = None
    /\ searchResults = <<>>
    /\ aiResponse = <<>>
    /\ qaResponse = NoResponse
    /\ calls = <<>>
    /\ llmFetches = 0
    /\ esFetches = 0
    /\ composeJobs = <<>>
    /\ composeAnswer = None
    /\ retrieved = <<>>
    /\ faulted = FALSE
    /\ searchFailed = FALSE
    /\ prompt = NoPrompt
    /\ bulkPc = "idle"
    /\ bulkJobs = <<>>
    /\ esRequests = <<>>
    /\ bulkResult = "none"
    /\ limit = NoLimit
    /\ lastNet = NoNet
    /\ bulkNet = "none"
    /\ reqs = <<>>
    /\ dataset = <<>>
    /\ invocation = 1
    /\ page \in {"landing", "chat"}
    /\ view = "loading"
    /\ currentStep = 0
    /\ formData = NoUserData
    /\ isScraping = FALSE
    /\ scrapingError = None
    /\ completed = <<>>
    /\ scrapes = <<>>
    /\ lastRedirect = NoRedirect
    /\ userData = NoUserData
    /\ localStorage \in AppStorages
    /\ hasRunJobAnalysis = FALSE
    /\ now = SessionInstant
    /\ messages = <<>>
    /\ inputMessage = <<>>
    /\ isLoading = FALSE
    /\ inFlight = <<>>
    /\ analyses = <<>>
    /\ runStatus = "none"
    /\ outstanding = {}

\* what the steps of the pages and of the wizard leave alone on the server side
AppUnchanged ==
    /\ UNCHANGED <<qaVars, scVars, bulkVars>>
    /\ UNCHANGED <<rawInput, limit, lastNet, bulkNet, reqs, dataset, outstanding, runStatus,
                   invocation>>

\* useEffect of Home: redirect to the chat when user data is stored, else
\* render OnboardingWizard
HomeEffect ==
    /\ page = "landing"
    /\ view = "loading"
    /\ IF HomeRedirects(localStorage)
       THEN /\ page' = "chat"
            /\ lastRedirect' = [from |-> "landing", to |-> "chat"]
            /\ UNCHANGED <<view, currentStep, formData, isScraping, scrapingError>>
       ELSE /\ view' = "wizard"
            /\ currentStep' = 0
            /\ formData' = NoUserData
            /\ isScraping' = FALSE
            /\ scrapingError' = None
            /\ lastRedirect' = NoRedirect
            /\ UNCHANGED page
    /\ UNCHANGED <<completed, scrapes>>
    /\ UNCHANGED cliVars
    /\ AppUnchanged

\* useEffect of ChatPage: render ChatInterface with the stored user data (its
\* mount effect reads the analysis flag), else redirect to the landing page
ChatPageEffect ==
    /\ page = "chat"
    /\ view = "loading"
    /\ IF ChatRenders(localStorage)
       THEN LET d == Parse(CHOOSE v \in localStorage.user : TRUE)
            IN  /\ userData' = d
                /\ hasRunJobAnalysis' = (AnalysisKey(d) \in localStorage.flags)
                /\ messages' = <<Greeting(now)>>
                /\ view' = "chat"
                /\ lastRedirect' = NoRedirect
                /\ UNCHANGED page
       ELSE /\ page' = "landing"
            /\ lastRedirect' = [from |-> "chat", to |-> "landing"]
            /\ UNCHANGED <<view, userData, hasRunJobAnalysis, messages>>
    /\ UNCHANGED <<inputMessage, isLoading, inFlight, now, localStorage, analyses>>
    /\ UNCHANGED <<currentStep, formData, isScraping, scrapingError, completed, scrapes>>
    /\ AppUnchanged

\* what the wizard steps other than the submit leave alone
WizardUnchanged ==
    /\ UNCHANGED <<page, view, isScraping, scrapingError, completed, scrapes, lastRedirect>>
    /\ UNCHANGED cliVars
    /\ AppUnchanged

\* onChange of the position input (step 0)
WizardPosition ==
    /\ view = "wizard"
    /\ currentStep = 0
    /\ \E text \in PositionInputs : formData' = [formData EXCEPT !.position = text]
    /\ UNCHANGED currentStep
    /\ WizardUnchanged

\* onClick of an experience level (step 1)
WizardLevel ==
    /\ view = "wizard"
    /\ currentStep = 1
    /\ \E level \in ExperienceLevels : formData' = [formData EXCEPT !.experienceLevel = level]
    /\ UNCHANGED currentStep
    /\ WizardUnchanged

\* onChange of the LinkedIn URL input (step 2), disabled while scraping
WizardUrl ==
    /\ view = "wizard"
    /\ currentStep = 2
    /\ ~isScraping
    /\ \E text \in UrlInputs : formData' = [formData EXCEPT !.linkedinUrl = text]
    /\ UNCHANGED currentStep
    /\ WizardUnchanged

\* handleBack; the button is disabled on step 0
WizardBack ==
    /\ view = "wizard"
    /\ currentStep > 0
    /\ currentStep' = currentStep - 1
    /\ UNCHANGED formData
    /\ WizardUnchanged

\* handleOnboardingComplete of Home for each call of onComplete, in order:
\* the data is stored, then the router is pushed to /chat
HandleOnboardingComplete(payloads) ==
    IF payloads = <<>>
    THEN UNCHANGED <<localStorage, page, view, lastRedirect>>
    ELSE /\ localStorage' = [localStorage EXCEPT !.user = {Stringify(payloads[Len(payloads)])}]
         /\ page' = "chat"
         /\ view' = "loading"
         /\ lastRedirect' = [from |-> "landing", to |-> "chat"]

\* handleNext; the button is disabled when the step is not valid or a scrape
\* is running.  On the last step: scrapeLinkedInProfile up to its await fetch
WizardNext ==
    /\ view = "wizard"
    /\ IsStepValid(currentStep, formData)
    /\ ~isScraping
    /\ IF currentStep < StepCount - 1
       THEN /\ currentStep' = currentStep + 1
            /\ UNCHANGED <<isScraping, scrapingError, completed, scrapes>>
            /\ UNCHANGED <<localStorage, page, view, lastRedirect>>
       ELSE /\ Len(completed) + Len(scrapes) < MaxOnboardings
            /\ UNCHANGED currentStep
            /\ IF formData.linkedinUrl = <<>>
               THEN /\ completed' = Append(completed, formData)
                    /\ HandleOnboardingComplete(<<formData>>)
                    /\ UNCHANGED <<isScraping, scrapingError, scrapes>>
               ELSE /\ isScraping' = TRUE
                    /\ scrapingError' = None
                    /\ scrapes' = Append(scrapes, [linkedinUrl |-> formData.linkedinUrl,
                                                   form |-> formData])
                    /\ UNCHANGED completed
                    /\ UNCHANGED <<localStorage, page, view, lastRedirect>>
    /\ UNCHANGED formData
    /\ UNCHANGED <<messages, inputMessage, isLoading, inFlight, now, userData,
                   hasRunJobAnalysis, analyses>>
    /\ AppUnchanged

\* what the profile-scrape request can end in: success with data, a success
\* envelope without data, an error envelope, a network error (or a body that
\* is not JSON), the abort after 120 seconds
ScrapeOutcomes == {"data", "noData", "error", "networkError", "abort"}

\* setScrapingError in each branch
ScrapingErrorOf(outcome, before) ==
    CASE outcome = "data"         -> before
      [] outcome = "noData"       -> <<"#failedToScrape">>
      [] outcome = "error"        -> <<"#failedToScrape">>
      [] outcome = "networkError" -> <<"#networkError">>
      [] outcome = "abort"        -> <<"#timedOut">>

\* the calls of onComplete scrapeLinkedInProfile makes after its await, for
\* the data of the render in which the last step was submitted
OnCompleteCallsNoneOnAbort(outcome, form) ==
    CASE outcome = "data"  -> <<[form EXCEPT !.linkedinData = ScrapedProfile]>>
      [] outcome = "abort" -> <<>>
      [] OTHER             -> <<form>>

OnCompleteCalls(outcome, form) ==
    IF outcome = "data"
    THEN <<[form EXCEPT !.linkedinData = ScrapedProfile]>>
    ELSE <<form>>

\* scrapeLinkedInProfile from the resolution of its awaits to the end of its finally
WizardSettle ==
    /\ view = "wizard"
    /\ \E i \in 1..Len(scrapes), outcome \in ScrapeOutcomes :
         LET payloads == OnCompleteCalls(outcome, scrapes[i].form)
         IN  /\ scrapingError' = ScrapingErrorOf(outcome, scrapingError)
             /\ completed' = completed \o payloads
             /\ HandleOnboardingComplete(payloads)
             /\ scrapes' = SubSeq(scrapes, 1, i - 1) \o SubSeq(scrapes, i + 1, Len(scrapes))
    /\ isScraping' = FALSE
    /\ UNCHANGED <<currentStep, formData>>
    /\ UNCHANGED <<messages, inputMessage, isLoading, inFlight, now, userData,
                   hasRunJobAnalysis, analyses>>
    /\ AppUnchanged

\* the keys resetOnboarding leaves in localStorage
KeptKeys(flags) == {k \in flags : ~StartsWith(k, AnalysisPrefix)}

\* resetOnboarding: the flags and the user data are removed and the browser
\* loads the landing page, which ends the scripts of the chat page
ResetOnboarding ==
    /\ view = "chat"
    /\ localStorage' = [user |-> {}, flags |-> KeptKeys(localStorage.flags)]
    /\ page' = "landing"
    /\ view' = "loading"
    /\ lastRedirect' = NoRedirect
    /\ messages' = <<>>
    /\ inputMessage' = <<>>
    /\ isLoading' = FALSE
    /\ inFlight' = <<>>
    /\ analyses' = <<>>
    /\ hasRunJobAnalysis' = FALSE
    /\ userData' = NoUserData
    /\ UNCHANGED <<now, currentStep, formData, isScraping, scrapingError, completed, scrapes>>
    /\ AppUnchanged

AppNext ==
    \/ HomeEffect
    \/ ChatPageEffect
    \/ WizardPosition
    \/ WizardLevel
    \/ WizardUrl
    \/ WizardBack
    \/ WizardNext
    \/ WizardSettle
    \/ ResetOnboarding

\* visits of the application: landing page, onboarding, chat page, reset
SpecApp == AppInit /\ [][AppNext]_vars

\* the profile-scrape request settles: it answers, fails, or is aborted by
\* the 120-second timer
SpecAppFair == SpecApp /\ WF_vars(WizardSettle)

-----------------------------------------------------------------------------
(* Browser: the Job Market Analysis button of ChatInterface *)

\* analysis requests the model lets run at the same time
MaxAnalyses == 2

\* count of the request body
AnalysisCount == 100

\* disabled={hasRunJobAnalysis} of the button
AnalysisDisabled(hasRun) == hasRun

\* onClick of the button up to its await fetch: the already-completed notice
\* when hasRunJobAnalysis is set, else the loading message and the request
AnalysisActivate ==
    /\ view = "chat"
    /\ ~AnalysisDisabled(hasRunJobAnalysis)
    /\ now < MaxInstant
    /\ Len(analyses) < MaxAnalyses
    /\ IF hasRunJobAnalysis
       THEN /\ messages' = Append(messages, Msg(now, <<"#alreadyCompleted">>, FALSE, now))
            /\ UNCHANGED analyses
       ELSE /\ messages' = Append(messages, Msg(now, <<"#collecting">>, FALSE, now))
            /\ analyses' = Append(analyses, [id |-> now, keywords |-> userData.position,
                                             count |-> AnalysisCount])
    /\ now' = now + 1
    /\ UNCHANGED <<inputMessage, isLoading, inFlight, userData, hasRunJobAnalysis,
                   localStorage>>
    /\ ChatUnchanged

\* what the analysis request can end in: a success envelope, an error
\* envelope, or a throw of fetch or of response.json()
AnalysisOutcomes == {"success", "error", "throw"}

\* content of the assistant message for each outcome
AnalysisContent(outcome) ==
    CASE outcome = "success" -> <<"#analysisDone">>
      [] outcome = "error"   -> <<"#collectionError">>
      [] outcome = "throw"   -> <<"#networkError">>

\* localStorage.setItem(analysisKey, 'true')
MarkCompletedNowhere(flags, key) == flags

MarkCompleted(flags, key) == flags \cup {key}

\* onClick of the button from the resolution of its awaits to its end: the
\* loading message is removed, a success sets the flag and hasRunJobAnalysis
AnalysisSettle ==
    /\ view = "chat"
    /\ \E i \in 1..Len(analyses), outcome \in AnalysisOutcomes :
         LET shown == SelectSeq(messages, LAMBDA m : m.id # analyses[i].id)
         IN  /\ messages' = Append(shown, Msg(now, AnalysisContent(outcome), FALSE, now))
             /\ analyses' = SubSeq(analyses, 1, i - 1) \o SubSeq(analyses, i + 1, Len(analyses))
             /\ IF outcome = "success"
                THEN /\ localStorage' =
                          [localStorage EXCEPT
                              !.flags = MarkCompleted(@, AnalysisKey(userData))]
                     /\ hasRunJobAnalysis' = TRUE
                ELSE UNCHANGED <<localStorage, hasRunJobAnalysis>>
    /\ now' = now + 1
    /\ UNCHANGED <<inputMessage, isLoading, inFlight, userData>>
    /\ ChatUnchanged

AnalysisNext ==
    \/ AnalysisActivate
    \/ AnalysisSettle
    \/ ChatInsights
    \/ ChatNew
    \/ ResetOnboarding
    \/ HomeEffect
    \/ ChatPageEffect
    \/ WizardPosition
    \/ WizardLevel
    \/ WizardUrl
    \/ WizardNext
    \/ WizardSettle

\* a chat session in which the analysis is run, the profile is reset and
\* onboarding is done again
SpecAnalysis == ChatInit /\ [][AnalysisNext]_vars

-----------------------------------------------------------------------------
(* Properties of the question-answering pipeline (specification Spec) *)

InCalls(name) == \E i \in 1..Len(calls) : calls[i] = name

\* the Decide answer is YES in any case, possibly surrounded by whitespace
AnsweredYes ==
    /\ decideResp # None
    /\ \E a \in 0..Len(decideResp) :
         /\ Len(decideResp) >= a + 3
         /\ \A i \in 1..a : decideResp[i] \in {" ", "\t", "\n"}
         /\ decideResp[a + 1] \in {"Y", "y"}
         /\ decideResp[a + 2] \in {"E", "e"}
         /\ decideResp[a + 3] \in {"S", "s"}
         /\ \A i \in (a + 4)..Len(decideResp) : decideResp[i] \in {" ", "\t", "\n"}

\* C1: when the Decide answer is YES (any case, trimmed), Query-Generate and
\* Retrieve are invoked, in that order, before Compose; for any other Decide
\* answer neither is invoked and Compose gets an empty job list.
C1_DecideGatesSearch ==
    /\ (AnsweredYes /\ InCalls("compose"))
          => calls = <<"decide", "querygen", "search", "compose">>
    /\ (AnsweredYes /\ qaPc = "done") => InCalls("querygen")
    /\ (AnsweredYes /\ qaPc = "done" /\ searchQuery # None) => InCalls("search")
    /\ (decideResp # None /\ ~AnsweredYes)
          => (~InCalls("querygen") /\ ~InCalls("search") /\ esFetches = 0)
    /\ (decideResp # None /\ ~AnsweredYes /\ InCalls("compose"))
          => (calls = <<"decide", "compose">> /\ composeJobs = <<>>)

C1_Witness ==
    /\ qaPc = "done"
    /\ decideResp = <<" ", "y", "e", "S">>
    /\ calls = <<"decide", "querygen", "search", "compose">>
    /\ Len(composeJobs) = MaxHits

\* C2: when an error reaches the orchestration catch, the response is a success
\* envelope whose answer is the fixed apology, whose jobs are the search results
\* gathered before the fault and whose totalHits is their number; no response of
\* the handler has status 500.
C2_FaultGivesApologyEnvelope ==
    /\ (qaPc = "done" /\ faulted)
          => qaResponse = [success |-> TRUE, status |-> 200,
                           data |-> [jobs |-> retrieved, aiResponse |-> PipelineApology,
                                     totalHits |-> Len(retrieved)]]
    /\ qaPc = "done" => qaResponse.status \in {200, 400}

C2_Witness ==
    /\ qaPc = "done"
    /\ faulted
    /\ calls = <<"decide", "querygen", "search", "compose">>
    /\ Len(retrieved) = MaxHits
    /\ qaResponse.data.totalHits = MaxHits

\* C3: when Decide is YES and textSearch fails, Compose is still called, with an
\* empty job list, and the response carries an empty jobs list and, Compose
\* having answered, Compose's answer.
C3_SearchFailureIsNotFatal ==
    /\ (searchFailed /\ qaPc # "done") => qaPc = "compose"
    /\ (searchFailed /\ qaPc = "done")
          => /\ calls = <<"decide", "querygen", "search", "compose">>
             /\ composeJobs = <<>>
             /\ qaResponse.success = TRUE
             /\ qaResponse.data.jobs = <<>>
             /\ qaResponse.data.totalHits = 0
             /\ (~faulted => qaResponse.data.aiResponse = composeAnswer)

C3_Witness ==
    /\ qaPc = "done"
    /\ searchFailed
    /\ ~faulted
    /\ esFetches = 1
    /\ composeAnswer = <<"o", "k">>
    /\ qaResponse.data.aiResponse = <<"o", "k">>

-----------------------------------------------------------------------------
(* Properties of the scraper handlers (specifications SpecScrape, SpecScrapeFair) *)

SyncFailed == syncOutcome \in {"throw", "nonOK", "empty"}

\* C4: when the sync phase fails or returns nothing and the poll budget of 24
\* attempts is spent without results, scrapeJobs answers with a success envelope
\* holding exactly the three records demo-1, demo-2, demo-3.
C4_JobsTimeoutGivesDemoData ==
    (kind = "jobs" /\ scPc = "done" /\ SyncFailed /\ attempts = 24)
       => /\ scResponse.success = TRUE
          /\ Len(scResponse.data.data) = 3
          /\ scResponse.data.data[1].id = "demo-1"
          /\ scResponse.data.data[2].id = "demo-2"
          /\ scResponse.data.data[3].id = "demo-3"

\* C5: when the sync phase fails or returns nothing and the async phase obtains
\* no result within 20 attempts, scrapeProfile answers with the timeout error;
\* whenever the handler ends without a scraped profile its response is an error
\* envelope, never a success envelope and never placeholder data.
C5_ProfileTimeoutIsError ==
    /\ (kind = "profile" /\ scPc = "done" /\ SyncFailed /\ attempts = 20)
          => scResponse = [success |-> FALSE, status |-> 500,
                           error |-> "LinkedIn scraping timed out or failed"]
    /\ (kind = "profile" /\ scPc = "done" /\ scraped = <<>>)
          => (scResponse.success = FALSE /\ scResponse.status \in {400, 500})

C5_Witness ==
    /\ kind = "profile"
    /\ scPc = "done"
    /\ syncOutcome = "empty"
    /\ attempts = 20
    /\ datasetFetches = 20
    /\ scResponse.status = 500

\* C6: the poll loops end by their attempt counter: whatever the scraper service
\* answers, the dataset of the run is fetched at most 20 times by scrapeProfile
\* and at most 24 times by scrapeJobs, and the handler returns.
C6_PollingTerminates ==
    /\ [](datasetFetches <= (IF kind = "profile" THEN 20 ELSE 24))
    /\ [](attempts <= datasetFetches)
    /\ <>(scPc = "done")

C6_Witness ==
    /\ kind = "jobs"
    /\ scPc = "done"
    /\ datasetFetches = 24
    /\ statusFetches = 12
    /\ attempts = 24

\* C7: when the synchronous call throws, is answered non-OK or returns no
\* results, the handler submits exactly one async run, and no poll or status
\* request is sent before that run was submitted.
C7_SyncFailureFallsBackToAsync ==
    /\ asyncSubmits <= 1
    /\ syncCalls <= 1
    /\ (SyncFailed /\ scPc = "submit") => (asyncSubmits = 0 /\ datasetFetches = 0)
    /\ (SyncFailed /\ scPc # "submit") => asyncSubmits = 1
    /\ (datasetFetches > 0 \/ statusFetches > 0) => (SyncFailed /\ asyncSubmits = 1)
    /\ scPc \in {"pollDataset", "pollStatus"} => (SyncFailed /\ asyncSubmits = 1)

C7_Witness ==
    /\ kind = "profile"
    /\ syncOutcome = "nonOK"
    /\ asyncSubmits = 1
    /\ scPc = "pollStatus"
    /\ datasetFetches = 3

-----------------------------------------------------------------------------
(* Properties of the bulk writer (specification SpecBulk) *)

\* C8: bulkSaveJobsToElasticsearch sends no request for 0 records; for N > 0
\* records it sends exactly one _bulk request whose body has 2N lines, the
\* action line and then the document line of each record, in input order.
C8_BulkBodyHasTwoLinesPerRecord ==
    bulkPc = "done" =>
       IF Len(bulkJobs) = 0
       THEN esRequests = <<>>
       ELSE /\ Len(esRequests) = 1
            /\ esRequests[1].endpoint = "/_bulk"
            /\ Len(esRequests[1].body) = 2 * Len(bulkJobs)
            /\ \A i \in 1..Len(bulkJobs) :
                 /\ esRequests[1].body[2 * i - 1] = [index |-> [_index |-> "linkedin-jobs-webhook"]]
                 /\ DOMAIN esRequests[1].body[2 * i] = {"doc", "vector", "text"}
                 /\ esRequests[1].body[2 * i].doc = bulkJobs[i]

C8_Witness ==
    /\ bulkPc = "done"
    /\ Len(bulkJobs) = MaxBulk
    /\ Len(esRequests) = 1
    /\ Len(esRequests[1].body) = 2 * MaxBulk

-----------------------------------------------------------------------------
(* Properties of the Compose prompt (specification SpecCompose) *)

\* C9: the conversation context of the Compose prompt holds the last 6 supplied
\* turns at most, in their order, and the content of each rendered turn is the
\* first 200 characters of the turn at most (followed by an ellipsis when cut).
C9_HistoryWindow ==
    qaPc = "rendered" =>
       LET n == Len(chatHistory)
           c == prompt.conversationContext
       IN  /\ Len(c) = (IF n < 6 THEN n ELSE 6)
           /\ \A i \in 1..Len(c) :
                LET msg  == chatHistory[n - Len(c) + i]
                    kept == IF Len(msg.content) < 200 THEN Len(msg.content) ELSE 200
                IN  /\ c[i].label = (IF msg.role = "user" THEN "User" ELSE "Assistant")
                    /\ SubSeq(c[i].text, 1, kept) = SubSeq(msg.content, 1, kept)
                    /\ Len(c[i].text) = kept + (IF Len(msg.content) > 200 THEN 3 ELSE 0)

C9_Witness ==
    /\ qaPc = "rendered"
    /\ Len(chatHistory) = 8
    /\ Len(chatHistory[3].content) = 199
    /\ Len(chatHistory[8].content) = 204
    /\ Len(prompt.conversationContext) = 6
    /\ Len(prompt.conversationContext[6].text) = 203

\* C10: the Compose prompt embeds the first 8 retrieved jobs at most, in
\* retrieval order, and the description of each snippet is the first 150
\* characters of the job's description at most (followed by an ellipsis).
C10_JobSnippets ==
    qaPc = "rendered" =>
       LET n == Len(searchResults)
           s == prompt.searchContext.snippets
       IN  /\ Len(s) = (IF n < 8 THEN n ELSE 8)
           /\ prompt.searchContext.count = n
           /\ \A i \in 1..Len(s) :
                LET job  == searchResults[i]
                    kept == IF Len(job.description) < 150 THEN Len(job.description) ELSE 150
                IN  /\ s[i].index = i
                    /\ s[i].title = (IF job.title = <<>> THEN <<"N", "/", "A">> ELSE job.title)
                    /\ SubSeq(s[i].description, 1, kept) = SubSeq(job.description, 1, kept)
                    /\ Len(s[i].description) = kept + 3

C10_Witness ==
    /\ qaPc = "rendered"
    /\ Len(searchResults) = 10
    /\ Len(searchResults[8].description) = 152
    /\ Len(prompt.searchContext.snippets) = 8
    /\ Len(prompt.searchContext.snippets[8].description) = 153

-----------------------------------------------------------------------------
(* No retry inside a request (specification Spec) *)

PipelineCalls == {"decide", "querygen", "search", "compose"}

\* how often the pipeline function was invoked in this request
CountCalls(name) == Cardinality({i \in 1..Len(calls) : calls[i] = name})

\* C11 as stated: each of the Decide, Query-Generate and Compose LLM calls
\* and the textSearch call is issued at most once, and once any of them has
\* failed no LLM or search call is issued for the request any more.
C11_NoCallAfterAnyFailure ==
    /\ [](\A name \in PipelineCalls : CountCalls(name) <= 1)
    /\ [][(faulted \/ searchFailed) => calls' = calls]_vars

\* C11: the pipeline never retries: each of the Decide, Query-Generate and
\* Compose LLM calls and the textSearch call is issued at most once and sends
\* at most one request; once an LLM call has failed nothing more is issued;
\* once textSearch has failed it is not issued again and the only call that
\* still follows is the single Compose call.
C11_NoRetry ==
    /\ [](/\ \A name \in PipelineCalls : CountCalls(name) <= 1
          /\ llmFetches <= Len(calls) - CountCalls("search")
          /\ esFetches <= CountCalls("search")
          /\ faulted => qaPc = "done"
          /\ searchFailed => calls \in {<<"decide", "querygen", "search">>,
                                        <<"decide", "querygen", "search", "compose">>})
    /\ [][faulted => (calls' = calls /\ llmFetches' = llmFetches /\ esFetches' = esFetches)]_vars
    /\ [][searchFailed => (/\ calls' \in {calls, Append(calls, "compose")}
                           /\ esFetches' = esFetches)]_vars

\* textSearch failed, Compose was then issued once and failed too
C11_Witness ==
    /\ qaPc = "done"
    /\ searchFailed
    /\ faulted
    /\ calls = <<"decide", "querygen", "search", "compose">>
    /\ llmFetches = 3
    /\ esFetches = 1

-----------------------------------------------------------------------------
(* Sanitization of user text (specification SpecScrape) *)

\* the text is one the sanitizer returns: sanitizing it again changes nothing
IsSanitized(t) == SanitizeInput(t) = t

\* C12: every user-supplied string has passed through the sanitizer before
\* it is used in a document sent to the search index: the job keywords the
\* scrape-jobs handler writes into its documents are (the lower-cased)
\* sanitized keywords, and the scraper is asked for the sanitized keywords.
C12_UserTextIsSanitized ==
    /\ \A i \in 1..Len(esRequests) :
         esRequests[i].endpoint = "/_bulk" =>
            \A k \in 1..Len(esRequests[i].body) :
               k % 2 = 0 =>
                  \A j \in 1..Len(esRequests[i].body[k].doc.keywords) :
                     /\ IsSanitized(esRequests[i].body[k].doc.keywords[j])
                     /\ esRequests[i].body[k].doc.keywords[j] = ToLowerCase(input)
    /\ input = SanitizeInput(rawInput)

-----------------------------------------------------------------------------
(* Configuration failures of the pipeline (specification Spec) *)

\* the request passed validation and a service it called had no credentials
QaConfigFailure ==
    \/ ~geminiConfigured /\ Len(calls) > 0
    \/ ~esConfigured /\ InCalls("search")

\* C13: a configuration failure (missing credentials for the search service
\* or the LLM) is never answered with a 200 success envelope: the request
\* ends with a 4xx/5xx error envelope and without a request to the service
\* whose credentials are missing; every other degradation of the pipeline
\* returns a success envelope.
C13_ConfigFailureIsExplicitError ==
    /\ ~geminiConfigured => llmFetches = 0
    /\ ~esConfigured => esFetches = 0
    /\ (qaPc = "done" /\ QaConfigFailure) =>
          /\ ~qaResponse.success
          /\ qaResponse.status >= 400
    /\ (qaPc = "done" /\ Len(calls) > 0 /\ ~QaConfigFailure) =>
          /\ qaResponse.success
          /\ qaResponse.status = 200

-----------------------------------------------------------------------------
(* Simple search (specification SpecGet) *)

\* textSearchJobs threw: no credentials, a failed fetch or a non-OK answer
GetSearchThrew ==
    \/ ~esConfigured
    \/ lastNet.kind \in {"throw", "nonOK"}

\* C14: on the GET search-jobs endpoint a textSearch failure is fatal: the
\* request ends with the error envelope of status 500 and carries no job
\* list, not with a success envelope over an empty list.
C14_GetSearchFailureIsFatal ==
    (qaPc = "getDone" /\ GetSearchThrew) =>
       /\ qaResponse = [success |-> FALSE, status |-> 500,
                        error |-> "Search service temporarily unavailable"]
       /\ "data" \notin DOMAIN qaResponse
       /\ searchFailed
       /\ calls = <<"search">>

\* the search service answered non-OK to the one request of the handler
C14_Witness ==
    /\ qaPc = "getDone"
    /\ esConfigured
    /\ esFetches = 1
    /\ lastNet.kind = "nonOK"
    /\ qaResponse.status = 500
    /\ ~qaResponse.success

-----------------------------------------------------------------------------
(* Ingestion and statistics collection (specification SpecIngest) *)

\* the bulk write of the handler failed
BulkWriteFailed == bulkNet \in {"nonOK", "throw"}

\* C15: when the scrape succeeds but the bulk index write fails, the failure
\* is swallowed: the scrape-jobs caller still receives the success envelope
\* with the scraped jobs, and the statistics-collection endpoint still asks
\* for the aggregate statistics and returns the snapshot the search service
\* answers, whether or not the just-scraped records reached the index.
C15_BulkFailureIsSwallowed ==
    /\ (kind = "jobs" /\ scPc = "done" /\ BulkWriteFailed) =>
          /\ Len(scraped) > 0
          /\ scResponse =
                CreateSuccessResponse([data |-> scraped, totalJobs |-> Len(scraped)])
    /\ (kind = "stats" /\ scPc = "done" /\ BulkWriteFailed) =>
          /\ esRequests[Len(esRequests)] = StatisticsRequest
          /\ esRequests[Len(esRequests) - 1].endpoint = "/_bulk"
    /\ (kind = "stats" /\ scPc = "done" /\ bulkNet # "none"
          /\ lastNet.kind \in {"ok", "noAggs"}) =>
          /\ scResponse.success
          /\ scResponse.status = 200
          /\ scResponse.data.statistics = lastNet.aggregations

\* the statistics handler scraped jobs, its bulk write threw, and it returned
\* the snapshot of the index
C15_Witness ==
    /\ kind = "stats"
    /\ scPc = "done"
    /\ syncOutcome = "results"
    /\ bulkNet = "throw"
    /\ scResponse.success
    /\ scResponse.data.statistics = [total_jobs |-> 2]

-----------------------------------------------------------------------------
(* Profile truncation (specification SpecScrape) *)

\* the first cap elements of xs, in order
FirstOf(xs, cap) == [i \in 1..(IF Len(xs) < cap THEN Len(xs) ELSE cap) |-> xs[i]]

\* C16: a profile returned by the scrape, by the synchronous or by the
\* asynchronous path, holds at most 5 experiences, 3 educations, 15 skills,
\* 5 certificates and 3 awards, each list being the first elements of the
\* scraped list in order.
C16_ProfileListCaps ==
    (kind = "profile" /\ scPc = "done" /\ scResponse.success) =>
       LET raw == dataset[1]
           p   == scResponse.data.data
       IN  /\ p.experiences = FirstOf(raw.experiences, 5)
           /\ p.educations = FirstOf(raw.educations, 3)
           /\ p.skills = FirstOf(raw.skills, 15)
           /\ p.licenseAndCertificates = FirstOf(raw.licenseAndCertificates, 5)
           /\ p.volunteerAndAwards = FirstOf(raw.volunteerAndAwards, 3)
           /\ Len(p.experiences) <= 5
           /\ Len(p.educations) <= 3
           /\ Len(p.skills) <= 15
           /\ Len(p.licenseAndCertificates) <= 5
           /\ Len(p.volunteerAndAwards) <= 3

\* a profile with 16 entries in every list, obtained by polling
C16_Witness ==
    /\ kind = "profile"
    /\ scPc = "done"
    /\ scResponse.success
    /\ syncOutcome = "empty"
    /\ datasetFetches > 1
    /\ Len(dataset[1].skills) = 16
    /\ Len(scResponse.data.data.skills) = 15
    /\ Len(scResponse.data.data.educations) = 3

-----------------------------------------------------------------------------
(* The LLM adapter (specification Spec) *)

\* calls of callGeminiAPI made so far: the pipeline functions other than the search
LlmCalls == Len(calls) - CountCalls("search")

\* what callGeminiAPI returns for an OK answer of the service
CandidateText(net) ==
    IF net.kind = "ok" /\ net.text # <<>> THEN net.text ELSE GeminiApology

\* C17: callGeminiAPI sends exactly one request per call and returns the
\* text of the first candidate; an OK answer without a usable candidate
\* gives the fixed apology string and no throw; a non-OK answer makes it
\* throw, and so do missing credentials, without a request being sent.
C17_OneRequestPerLlmCall ==
    /\ geminiConfigured => llmFetches = LlmCalls
    /\ ~geminiConfigured =>
          /\ llmFetches = 0
          /\ lastNet = NoNet
          /\ Len(calls) > 0 => (faulted /\ calls = <<"decide">>)
    /\ (geminiConfigured /\ calls = <<"decide">>) =>
          IF lastNet.kind \in {"throw", "nonOK"}
          THEN faulted /\ decideResp = None
          ELSE ~faulted /\ decideResp = CandidateText(lastNet)
    /\ (geminiConfigured /\ Len(calls) > 0 /\ calls[Len(calls)] = "compose") =>
          IF lastNet.kind \in {"throw", "nonOK"}
          THEN faulted /\ composeAnswer = None
          ELSE ~faulted /\ composeAnswer = CandidateText(lastNet)

\* the service answered OK without a candidate to the Decide call
C17_Witness ==
    /\ geminiConfigured
    /\ calls = <<"decide">>
    /\ llmFetches = 1
    /\ lastNet.kind = "noCandidate"
    /\ ~faulted
    /\ decideResp = GeminiApology

-----------------------------------------------------------------------------
(* The search adapter on any query (specification SpecGet) *)

\* C18: textSearch does not throw on an empty query or on a query that
\* matches nothing: whenever the search service answers OK, with hits, with
\* an empty hit list or without a hits field, it returns a list (possibly
\* empty), whatever the query is.
C18_SearchReturnsAList ==
    (qaPc = "getDone" /\ esConfigured /\ lastNet.kind \in {"ok", "noHits"}) =>
       /\ ~searchFailed
       /\ esFetches = 1
       /\ retrieved = (IF lastNet.kind = "ok" THEN lastNet.hits ELSE <<>>)
       /\ qaResponse.success
       /\ qaResponse.data.totalHits = Len(retrieved)
       /\ qaResponse.data.jobs = SliceTo(retrieved, limit)

\* the empty query was searched and the answer carried no hits field
C18_Witness ==
    /\ qaPc = "getDone"
    /\ query = <<>>
    /\ esConfigured
    /\ lastNet.kind = "noHits"
    /\ ~searchFailed
    /\ qaResponse.success
    /\ qaResponse.data.jobs = <<>>
    /\ qaResponse.data.totalHits = 0

-----------------------------------------------------------------------------
(* Validation of blank input (specification SpecValidate) *)

\* C19: a blank sanitized input (the question of POST search-jobs, the URL
\* of scrape-linkedin, the keywords of scrape-jobs) ends the request with a
\* 400 error envelope, and no request to the LLM, the scraper or the search
\* service is made for it.
C19_BlankInputIsRejected ==
    /\ (qaPc \notin {"idle", "start"} /\ Trim(query) = <<>>) =>
          /\ qaPc = "done"
          /\ qaResponse = [success |-> FALSE, status |-> 400,
                           error |-> "Search query is required"]
          /\ calls = <<>>
          /\ llmFetches = 0
          /\ esFetches = 0
          /\ lastNet = NoNet
    /\ (scPc \notin {"idle", "start"} /\ Trim(input) = <<>>) =>
          /\ scPc = "done"
          /\ scResponse = [success |-> FALSE, status |-> 400,
                           error |-> IF kind = "profile" THEN "LinkedIn URL is required"
                                     ELSE "Job keywords are required"]
          /\ syncCalls = 0
          /\ asyncSubmits = 0
          /\ datasetFetches = 0
          /\ statusFetches = 0
          /\ mappingCalls = 0
          /\ esRequests = <<>>

\* a URL of blanks and markup was sanitized to the empty text and rejected
C19_Witness ==
    /\ kind = "profile"
    /\ scPc = "done"
    /\ rawInput = <<" ", "<">>
    /\ input = <<>>
    /\ apifyConfigured
    /\ scResponse.status = 400
    /\ syncCalls = 0

-----------------------------------------------------------------------------
(* Statelessness across invocations (specification SpecTwo) *)

\* the response handleJobSearch gives to sanitizedQuery q when the request is
\* processed alone and the services answer nets, in order
AloneResponse(q, nets) ==
    IF q = <<>> \/ Len(Trim(q)) = 0
    THEN CreateErrorResponse("Search query is required", 400)
    ELSE LET d == CallGeminiAPI(geminiConfigured, nets[1])
         IN  IF d.threw
             THEN JobSearchEnvelope(<<>>, PipelineApology)
             ELSE IF ~IsYes(d.text)
             THEN LET c == CallGeminiAPI(geminiConfigured, nets[2])
                  IN  JobSearchEnvelope(<<>>, IF c.threw THEN PipelineApology ELSE c.text)
             ELSE LET g == CallGeminiAPI(geminiConfigured, nets[2])
                  IN  IF g.threw
                      THEN JobSearchEnvelope(<<>>, PipelineApology)
                      ELSE LET s       == TextSearchJobs(esConfigured, nets[3])
                               results == IF s.threw THEN <<>> ELSE s.hits
                               c       == CallGeminiAPI(geminiConfigured, nets[4])
                           IN  JobSearchEnvelope(results,
                                   IF c.threw THEN PipelineApology ELSE c.text)

\* C20: the backend is stateless across invocations: two requests processed
\* in any interleaving share no mutable in-process state (a step of one
\* changes nothing the other reads, and the configuration both read never
\* changes), and each produces the response it would have produced alone
\* for its own query and its own service answers.
C20_StatelessAcrossInvocations ==
    /\ [](\A r \in Requests :
            reqs[r].pc = "done" =>
               reqs[r].response = AloneResponse(reqs[r].query, reqs[r].nets))
    /\ [][\A r \in Requests, o \in Requests :
            (r # o /\ reqs'[r] # reqs[r]) => reqs'[o] = reqs[o]]_vars
    /\ [][geminiConfigured' = geminiConfigured /\ esConfigured' = esConfigured]_vars

\* both requests searched and were answered different hit lists
C20_Witness ==
    /\ reqs[1].pc = "done"
    /\ reqs[2].pc = "done"
    /\ Len(reqs[1].nets) = 4
    /\ Len(reqs[2].nets) = 4
    /\ reqs[1].response.data.totalHits = 2
    /\ reqs[2].response.data.totalHits = 1
    /\ reqs[1].response.data.jobs # reqs[2].response.data.jobs

-----------------------------------------------------------------------------
(* Sequencing of the external calls of one request (specification Spec) *)

\* the call has been made and has settled
Settled(name) == InCalls(name) /\ name \notin outstanding

\* C21: within one question-answering request at most one external call is
\* in flight at any time; Query-Generate is in flight only after Decide has
\* answered, textSearch only after Query-Generate has answered, and Compose
\* only after Decide has answered and, when a search was called for, after
\* textSearch has returned or failed; nothing is in flight once the handler
\* has responded.
C21_CallsAreSequentialAndGated ==
    /\ Cardinality(outstanding) <= 1
    /\ "querygen" \in outstanding => (Settled("decide") /\ decideResp # None)
    /\ "search" \in outstanding => (Settled("querygen") /\ searchQuery # None)
    /\ "compose" \in outstanding =>
          /\ Settled("decide")
          /\ AnsweredYes => (Settled("querygen") /\ Settled("search"))
    /\ qaPc = "done" => outstanding = {}

C21_Witness ==
    /\ outstanding = {"compose"}
    /\ calls = <<"decide", "querygen", "search">>
    /\ searchFailed

-----------------------------------------------------------------------------
(* Run status during polling (specification SpecScrape) *)

\* C22: when a poll found no results and the run status reports FAILED, the
\* handler has returned the scrape-failure error of its kind without counting
\* the attempt, and no request follows; after any other status answer the
\* handler either polls again with one more attempt counted or, with the
\* attempt budget spent, has returned the timeout error.  The scrape-failure
\* error is returned in no other case.
C22_FailedStatusEndsPolling ==
    /\ [] /\ runStatus = "FAILED" =>
                /\ scPc = "done"
                /\ scResponse = RunFailedResponse(kind)
                /\ attempts < MaxAttemptsOf(kind)
                /\ attempts < datasetFetches
          /\ runStatus \in StatusNet \ {"FAILED"} =>
                /\ attempts = datasetFetches
                /\ \/ scPc = "pollDataset" /\ attempts < MaxAttemptsOf(kind)
                                           /\ scResponse = NoResponse
                   \/ scPc = "done" /\ attempts = MaxAttemptsOf(kind)
                                    /\ scResponse = TimeoutResponse(kind)
          /\ scResponse \in {RunFailedResponse("profile"), RunFailedResponse("jobs")}
                => runStatus = "FAILED"
    /\ [][runStatus = "FAILED" =>
                /\ datasetFetches' = datasetFetches
                /\ statusFetches' = statusFetches
                /\ scResponse' = scResponse]_vars

C22_Witness ==
    /\ runStatus = "FAILED"
    /\ kind = "jobs"
    /\ attempts = 2
    /\ datasetFetches = 3
    /\ scPc = "done"

\* a status other than FAILED was reported and the loop went on to its next pass
C22_WitnessOther ==
    /\ runStatus = "SUCCEEDED"
    /\ scPc = "pollDataset"
    /\ attempts = 3

-----------------------------------------------------------------------------
(* Index mapping before scraping (specification SpecReingest) *)

\* requests the handler has sent to the scraper service in this invocation
ScraperCalls == syncCalls + asyncSubmits + datasetFetches + statusFetches

\* the invocation got past the validation of its input
PastValidation ==
    /\ scPc \notin {"start", "statsStart", "initIndex"}
    /\ ~(scPc = "done" /\ scResponse.status = 400)

\* C23: every ingestion invocation that gets past its input validation issues
\* the index mapping call, once, whether or not an earlier invocation of the
\* process already issued it, and the mapping request is the first request of
\* the invocation: no scraper call is made before it.
C23_MappingCallFirst ==
    kind \in {"jobs", "stats"} =>
        /\ mappingCalls <= 1
        /\ PastValidation => mappingCalls = 1
        /\ ScraperCalls > 0 => mappingCalls = 1
        /\ mappingCalls = 1 => (Len(esRequests) >= 1 /\ esRequests[1] = MappingRequest)
        /\ scPc \in {"start", "statsStart", "initIndex"} => ScraperCalls = 0

C23_Witness ==
    /\ invocation = 2
    /\ kind = "jobs"
    /\ mappingCalls = 1
    /\ syncCalls = 1
    /\ datasetFetches = 1
    /\ scPc = "pollStatus"

-----------------------------------------------------------------------------
(* Synchronous scrape with results (specification SpecScrape) *)

\* C25: when the synchronous call answered OK with at least one result, the
\* handler never submits an asynchronous run and never sends a poll or status
\* request, and its response is the success response built from that result.
C25_SyncResultsAnswerAlone ==
    syncOutcome = "results" =>
        /\ syncCalls = 1
        /\ asyncSubmits = 0
        /\ datasetFetches = 0
        /\ statusFetches = 0
        /\ scPc \in {"save", "done"}
        /\ Len(dataset) >= 1
        /\ scraped = ProcessDataset(kind, dataset, input)
        /\ scPc = "done" => scResponse = ScrapeSuccess(kind, scraped)

C25_Witness ==
    /\ syncOutcome = "results"
    /\ kind = "jobs"
    /\ scPc = "done"
    /\ Len(dataset) = MaxScraped
    /\ scResponse.success

-----------------------------------------------------------------------------
(* The chat history of a question request (specification SpecChat) *)

\* the messages of the session other than the greeting, in insertion order
AfterGreeting(msgs) == SelectSeq(msgs, LAMBDA m : m.content # <<"#greeting">>)

\* a question request has been issued in this step
RequestIssued == Len(inFlight') > Len(inFlight)

\* C24: the chat history sent with a question holds at most 10 entries: the
\* most recent messages of the session before the question, in insertion
\* order and unchanged, without the initial greeting; when the session has
\* more, the older ones are left out and nothing stands in for them.
C24_HistoryIsLastTenWithoutGreeting ==
    [][RequestIssued =>
          LET h     == inFlight'[Len(inFlight')].chatHistory
              prior == AfterGreeting(messages)
              n     == Len(h)
          IN  /\ n <= 10
              /\ n = Min(10, Len(prior))
              /\ \A i \in 1..n :
                    LET m == prior[Len(prior) - n + i]
                    IN  /\ h[i].content = m.content
                        /\ h[i].timestamp = m.timestamp
                        /\ h[i].role = (IF m.isUser THEN "user" ELSE "assistant")
              /\ \A i \in 1..n : h[i].content # <<"#greeting">>]_vars

\* a question sent from a session of 13 messages: the two oldest after the
\* greeting are not in its history
C24_Witness ==
    /\ Len(inFlight) = 1
    /\ Len(messages) = 14
    /\ Len(inFlight[1].chatHistory) = 10
    /\ inFlight[1].chatHistory[1].timestamp = messages[4].timestamp
    /\ inFlight[1].chatHistory[10].timestamp = messages[13].timestamp

-----------------------------------------------------------------------------
(* Every question gets one reply (specification SpecChatFair) *)

\* the step appended exactly one message to the session
AppendedOne == Len(messages') = Len(messages) + 1 /\ SubSeq(messages', 1, Len(messages)) = messages

\* a question request has settled in this step
RequestSettled == Len(inFlight') < Len(inFlight)

\* the texts handleSendMessage answers with
ReplyContents ==
    {<<"#answer">>, <<"#fallback">>, <<"#errorApology">>, <<"#connectionApology">>}

-----------------------------------------------------------------------------
(* One question at a time (specification SpecChat) *)

\* the step appended a user message
AppendedUserMessage == AppendedOne /\ messages'[Len(messages')].isUser

\* C28: at most one question request is in flight, and one is in flight
\* exactly while isLoading is true; while isLoading is true no step issues a
\* request or appends a user message; no request is issued for an input that
\* is empty or only whitespace, and no request in flight carries such a query.
C28_OneQuestionInFlight ==
    /\ [] /\ Len(inFlight) <= 1
          /\ isLoading <=> Len(inFlight) = 1
          /\ \A i \in 1..Len(inFlight) : Trim(inFlight[i].query) # <<>>
    /\ [][isLoading => (~RequestIssued /\ ~AppendedUserMessage)]_vars
    /\ [][Trim(inputMessage) = <<>> => (~RequestIssued /\ ~AppendedUserMessage)]_vars

\* a question is awaiting its answer and the user has typed the next one
C28_Witness ==
    /\ isLoading
    /\ Len(inFlight) = 1
    /\ inputMessage = <<"h", "i">>

-----------------------------------------------------------------------------
(* C26 *)

\* the profile-scrape request of the submitted final step is awaited
ScrapePending == scrapes # <<>>

\* the payload of the latest call of onComplete
LastCompleted == completed[Len(completed)]

\* the step resolves the awaited profile-scrape request
ScrapeSettles == Len(scrapes') < Len(scrapes)

-----------------------------------------------------------------------------
(* C30 *)

\* user data is stored under 'shekarchai-user-data'
HasStoredUser(storage) == storage.user # {}

\* the page's effect is about to run
EffectOf(p) == page = p /\ view = "loading"

\* C30: the effect of the landing page redirects to the chat page exactly when
\* user data is stored and otherwise shows the wizard; the effect of the chat
\* page renders the chat interface, with the stored data, exactly when user
\* data is stored and otherwise redirects to the landing page, so the chat
\* interface is on screen only with stored user data; a call of onComplete
\* has stored its payload when it redirects to the chat page; and every
\* navigation arrives on a page whose effect will not navigate back, so that a
\* redirect is never followed by another redirect while storage is unchanged.
C30_RoutingFollowsStorage ==
    /\ [][EffectOf("landing") =>
            IF HasStoredUser(localStorage)
            THEN page' = "chat" /\ view' = "loading"
            ELSE page' = "landing" /\ view' = "wizard"]_vars
    /\ [][EffectOf("chat") =>
            IF HasStoredUser(localStorage)
            THEN page' = "chat" /\ view' = "chat" /\ localStorage.user = {Stringify(userData')}
            ELSE page' = "landing" /\ view' = "loading"]_vars
    /\ [] (view = "chat" => page = "chat" /\ localStorage.user = {Stringify(userData)})
    /\ [] (view = "wizard" => page = "landing")
    /\ [][Len(completed') > Len(completed) =>
            /\ localStorage'.user = {Stringify(completed'[Len(completed')])}
            /\ page' = "chat" /\ view' = "loading"]_vars
    /\ [][page' # page =>
            /\ view' = "loading"
            /\ HasStoredUser(localStorage') <=> (page' = "chat")]_vars
    /\ [][lastRedirect # NoRedirect /\ localStorage' = localStorage =>
            lastRedirect' = NoRedirect /\ page' = page]_vars

\* onboarding completed, the redirect arrived on the chat page, and the chat
\* interface was rendered with the stored payload
C30_Witness ==
    /\ completed # <<>>
    /\ view = "chat"
    /\ userData = completed[Len(completed)]
    /\ lastRedirect = NoRedirect

-----------------------------------------------------------------------------
(* C29 *)

\* the completion flag of the pair of the current user data is stored
FlagSet(storage, d) == AnalysisKey(d) \in storage.flags

\* the job-analysis flags in storage
AnalysisFlags(storage) == {k \in storage.flags : StartsWith(k, AnalysisPrefix)}

\* the step resolves an analysis request of the session that stays on screen
AnalysisSettles == view' = "chat" /\ Len(analyses') < Len(analyses)

\* the step resolves an analysis request with a success envelope
AnalysisSucceeds ==
    AnalysisSettles /\ messages'[Len(messages')].content = <<"#analysisDone">>

\* the step issues an ingestion request
AnalysisIssued == Len(analyses') > Len(analyses)

\* the step is Reset Profile
ResetStep == view = "chat" /\ page' = "landing"

C29_WitnessAfterReset ==
    /\ view = "chat"
    /\ completed # <<>>
    /\ AnalysisFlags(localStorage) = {}
    /\ analyses # <<>>

====
